---- MODULE Spec2Model ----
(***************************************************************************)
(* Tiered memory and retrieval engine of mindshard-studio:                 *)
(*   utils.chunk_text, vector_store.{Faiss,Chroma}VectorStore,             *)
(*   digestor.Digestor, digestor_manager.DigestorManager,                  *)
(*   memory_manager.MemoryManager (scratchpad part),                       *)
(*   memory_layers.{WorkingMemory,ShortTermMemory,LongTermMemory,          *)
(*   MemoryLayers}.                                                        *)
(*                                                                         *)
(* A Python call is modelled by an operator that maps the object's state   *)
(* and the call's inputs to a record [d/.., exc, val]: exc = "none" is a   *)
(* normal return, anything else is the exception that leaves the call.     *)
(* Outcomes of the external collaborators (embedder, summarizer, backend   *)
(* I/O, the logger's level) are inputs of the call.                        *)
(***************************************************************************)
EXTENDS Integers, Sequences, FiniteSets, TLC

(***************************************************************************)
(* Bounds of the model.                                                    *)
(***************************************************************************)
MaxStore == 2        \* most metadata records one store is driven to
MaxEntries == 5      \* most MemoryEntry objects created
Threshold == 2       \* ShortTermMemory._threshold (flush_threshold)
MaxMembers == 2      \* longest id list handed to create_group
MaxTopK == 2         \* largest top_k handed to query_group
MaxKWork == 3        \* largest k_work handed to query_all
DefaultK == 3        \* query_group's default k_per_instance
PadScore == 9        \* the distance faiss reports for a missing neighbour
ChunkSize == 2       \* Digestor.chunk_size of the modelled engines
ChunkOverlap == 1    \* Digestor.chunk_overlap of the modelled engines

Engines == {"e1", "e2"}
Paths == {"p", "q"}
Sources == {"src"}
StoreKinds == {"faiss", "chroma"}

\* Document contents: the empty text and the texts "1" and "12" (characters
\* are digits).
Contents == {<<>>, <<1>>, <<1, 2>>}
Docs == [path : Paths, content : Contents]

VARIABLES
    engines,      \* Engines -> Digestor state [kind, vectors, metadata, seen]
    instances,    \* DigestorManager._instances: id -> engine
    groups,       \* DigestorManager._groups: group id -> sequence of ids
    scratchpad,   \* MemoryManager.scratchpad (the Working tier's buffer)
    nextId,       \* next MemoryEntry id to hand out
    op,           \* the last operation called, with its inputs
    ret,          \* its outcome [exc, isNone, val]
    hist,         \* history: commit_turn calls, flushes that promoted, and
                  \* whether only fault-free commit_turn calls were made
    ranked,       \* Engines -> the scores the engine's vector index gives its
                  \* records for the query text, in the order it returns them
    tasks,        \* MemoryLayers._periodic_task and the event loop's tasks
    threads,      \* concurrent callers: each one's position, locals and locks
    jsonl         \* MemoryManager's long-term JSONL file: one entry per line

vars == <<engines, instances, groups, scratchpad, nextId, op, ret, hist, ranked,
          tasks, threads, jsonl>>

(***************************************************************************)
(* Sequence helpers.                                                       *)
(***************************************************************************)
Min(a, b) == IF a < b THEN a ELSE b

RECURSIVE PickFrom(_, _, _)
PickFrom(s, keep, i) ==
    IF i > Len(s) THEN <<>>
    ELSE (IF i \in keep THEN <<s[i]>> ELSE <<>>) \o PickFrom(s, keep, i + 1)

\* The subsequence of s at the indices in keep, in order.
Pick(s, keep) == PickFrom(s, keep, 1)

Range(s) == {s[i] : i \in 1..Len(s)}

\* Outcome of a call: the exception that left it ("none": it returned), and
\* the value returned (isNone: it returned None).
Outcome(exc, isNone, val) == [exc |-> exc, isNone |-> isNone, val |-> val]
None == Outcome("none", TRUE, "None")

(***************************************************************************)
(* utils.chunk_text                                                        *)
(***************************************************************************)
\* Python's text[start:end] for 0 <= start.
Slice(text, start, end) == SubSeq(text, start + 1, Min(end, Len(text)))

RECURSIVE ChunkLoop(_, _, _, _)
ChunkLoop(text, size, overlap, start) ==
    IF start < Len(text)
    THEN <<Slice(text, start, start + size)>>
         \o ChunkLoop(text, size, overlap, start + (size - overlap))
    ELSE <<>>

\* (mutant of chunk_text: the window advances by size, the overlap is ignored)
ChunkTextIgnoresOverlap(text, size, overlap) ==
    IF size <= 0 THEN [exc |-> "ValueError", val |-> <<>>]
    ELSE IF overlap < 0 \/ overlap >= size THEN [exc |-> "ValueError", val |-> <<>>]
    ELSE [exc |-> "none", val |-> ChunkLoop(text, size, 0, 0)]

\* (mutant of chunk_text: empty text is answered before the arguments are checked)
ChunkTextEmptyFirst(text, size, overlap) ==
    IF text = <<>> THEN [exc |-> "none", val |-> <<>>]
    ELSE IF size <= 0 THEN [exc |-> "ValueError", val |-> <<>>]
    ELSE IF overlap < 0 \/ overlap >= size THEN [exc |-> "ValueError", val |-> <<>>]
    ELSE [exc |-> "none", val |-> ChunkLoop(text, size, overlap, 0)]

chunk_text(text, size, overlap) ==
    IF size <= 0 THEN [exc |-> "ValueError", val |-> <<>>]
    ELSE IF overlap < 0 \/ overlap >= size THEN [exc |-> "ValueError", val |-> <<>>]
    ELSE [exc |-> "none", val |-> ChunkLoop(text, size, overlap, 0)]

(***************************************************************************)
(* vector_store: FaissVectorStore keeps the index (vectors) and the        *)
(* metadata list apart; ChromaVectorStore keeps records (both the same     *)
(* length).  The store is the fields kind, vectors, metadata of d.         *)
(***************************************************************************)
EmptyEngine(kind) ==
    [kind |-> kind, vectors |-> <<>>, metadata |-> <<>>, seen |-> {}]

\* meta.get(k) == v for every given key
Matches(meta, filters) == \A k \in DOMAIN filters : meta[k] = filters[k]

FaissAdd(d, embeddings, metadatas, io) ==
    LET d2 == [d EXCEPT !.vectors = @ \o embeddings, !.metadata = @ \o metadatas]
    IN  \* faiss.write_index is the backend I/O: it runs after the lists grew
        [d |-> d2, exc |-> IF io THEN "StoreUnavailable" ELSE "none"]

ChromaAdd(d, embeddings, metadatas, io) ==
    IF io THEN [d |-> d, exc |-> "StoreUnavailable"]
    ELSE IF Len(embeddings) # Len(metadatas) THEN [d |-> d, exc |-> "ValueError"]
    ELSE [d |-> [d EXCEPT !.vectors = @ \o embeddings, !.metadata = @ \o metadatas],
          exc |-> "none"]

StoreAdd(d, embeddings, metadatas, io) ==
    IF d.kind = "faiss" THEN FaissAdd(d, embeddings, metadatas, io)
    ELSE ChromaAdd(d, embeddings, metadatas, io)

StoreCount(d) == IF d.kind = "faiss" THEN Len(d.vectors) ELSE Len(d.metadata)

FaissDeleteByMetadata(d, filters, io) ==
    LET to_remove == {i \in 1..Len(d.metadata) : Matches(d.metadata[i], filters)}
        keep_idxs == (1..Len(d.metadata)) \ to_remove
    IN  IF to_remove = {} THEN [d |-> d, exc |-> "none", val |-> 0]
        ELSE IF \E i \in keep_idxs : i > Len(d.vectors)
        THEN \* index.reconstruct(i) of a vector the index does not hold
             [d |-> d, exc |-> "RuntimeError", val |-> 0]
        ELSE LET d2 == [d EXCEPT !.vectors = Pick(d.vectors, keep_idxs),
                                 !.metadata = Pick(d.metadata, keep_idxs)]
             IN  IF io THEN [d |-> d2, exc |-> "StoreUnavailable", val |-> 0]
                 ELSE [d |-> d2, exc |-> "none", val |-> Cardinality(to_remove)]

ChromaDeleteByMetadata(d, filters, io) ==
    LET keep_idxs == {i \in 1..Len(d.metadata) : ~Matches(d.metadata[i], filters)}
        d2 == [d EXCEPT !.vectors = Pick(d.vectors, keep_idxs),
                        !.metadata = Pick(d.metadata, keep_idxs)]
    IN  IF io THEN [d |-> d, exc |-> "StoreUnavailable", val |-> 0]
        ELSE [d |-> d2, exc |-> "none",
              val |-> Len(d.metadata) - Len(d2.metadata)]

StoreDeleteByMetadata(d, filters, io) ==
    IF d.kind = "faiss" THEN FaissDeleteByMetadata(d, filters, io)
    ELSE ChromaDeleteByMetadata(d, filters, io)

\* Neither FaissVectorStore nor ChromaVectorStore (nor VectorStore) defines
\* clear: store.clear() is an AttributeError and the store is untouched.
StoreClear(d) == [d |-> d, exc |-> "AttributeError"]

(***************************************************************************)
(* digestor.Digestor                                                       *)
(***************************************************************************)
RECURSIVE HashFrom(_, _, _)
HashFrom(content, i, h) ==
    IF i > Len(content) THEN h ELSE HashFrom(content, i + 1, h * 10 + content[i])

\* _hash_content: a digest of the whole text (distinct for distinct texts of
\* the model: 1 followed by the text's digits).
HashContent(content) == HashFrom(content, 1, 1)

\* The embedder's vector of a text.
Embed(text) == [vec |-> text]

\* (mutant of MarkSeen: the hash of an ingested document is not recorded)
MarkSeenDropped(d, h) == d

\* line 109: self._seen_hashes.add(content_hash)
MarkSeen(d, h) == [d EXCEPT !.seen = @ \cup {h}]

\* line 95: content_hash in self._seen_hashes and not force
SkipSeen(d, h, force) == h \in d.seen /\ ~force

\* ingest_chunks: fails is the set of chunk positions (1-based) whose
\* embedding raises, io whether the backend is unavailable.
\* lines 133-142: the embeddings of the chunks whose embedding did not raise,
\* and the metadatas list as it was given: the arguments of self.store.add
AddArguments(chunks, metadatas, fails) ==
    LET ok == (1..Len(chunks)) \ fails
    IN  [embeddings |-> [j \in 1..Cardinality(ok) |-> Embed(Pick(chunks, ok)[j])],
         metadatas |-> metadatas]

IngestChunks(d, chunks, metadatas, fails, io) ==
    IF Len(chunks) # Len(metadatas) THEN [d |-> d, exc |-> "ValueError"]
    ELSE LET args == AddArguments(chunks, metadatas, fails)
         IN  IF args.embeddings # <<>>
             THEN StoreAdd(d, args.embeddings, args.metadatas, io)
             ELSE [d |-> d, exc |-> "none"]

ChunkMetadatas(source, path, n, h) ==
    [idx \in 1..n |->
        [source |-> source, path |-> path, chunk_index |-> idx - 1, content_hash |-> h]]

\* The loop of ingest_documents from document i on.  faults[i] is the set of
\* failing chunk embeddings of document i; dbg is whether the logger is
\* enabled for DEBUG: logger.debug(msg, path=path) then raises TypeError
\* (logging.Logger._log takes no keyword 'path').
RECURSIVE IngestLoop(_, _, _, _, _, _, _, _)
IngestLoop(d, source, docs, force, faults, io, dbg, i) ==
    IF i > Len(docs) THEN [d |-> d, exc |-> "none"]
    ELSE LET path == docs[i].path
             content == docs[i].content
             h == HashContent(content)
         IN  IF content = <<>> \/ SkipSeen(d, h, force)
             THEN IF dbg THEN [d |-> d, exc |-> "TypeError"]
                  ELSE IngestLoop(d, source, docs, force, faults, io, dbg, i + 1)
             ELSE LET ch == chunk_text(content, ChunkSize, ChunkOverlap)
                      r == IngestChunks(d, ch.val,
                               ChunkMetadatas(source, path, Len(ch.val), h),
                               faults[i], io)
                  IN  IF ch.exc # "none" THEN [d |-> d, exc |-> ch.exc]
                      ELSE IF r.exc # "none" THEN r
                      ELSE IngestLoop(MarkSeen(r.d, h), source, docs, force,
                                      faults, io, dbg, i + 1)

IngestDocuments(d, source, docs, force, faults, io, dbg) ==
    IngestLoop(d, source, docs, force, faults, io, dbg, 1)

\* (mutant of CallIngestDocuments: a single positional argument is taken as
\* the documents)
CallIngestDocumentsBindsDocuments(d, args, force, faults, io, dbg) ==
    IF Len(args) < 2 THEN IngestDocuments(d, "src", args[1], force, faults, io, dbg)
    ELSE IngestDocuments(d, args[1], args[2], force, faults, io, dbg)

\* A call ingest_documents(*args, force=force): the signature is
\* (source, documents, force=False), so a call with one positional argument
\* leaves 'documents' unbound and raises TypeError before the body runs.
CallIngestDocuments(d, args, force, faults, io, dbg) ==
    IF Len(args) < 2 THEN [d |-> d, exc |-> "TypeError"]
    ELSE IngestDocuments(d, args[1], args[2], force, faults, io, dbg)

DeleteByMetadata(d, filters, io) == StoreDeleteByMetadata(d, filters, io)

UpdateDocument(d, document, faults, io, dbg) ==
    LET content_hash == HashContent(document.content)
        del == DeleteByMetadata(d, [path |-> document.path], io)
        d2 == [del.d EXCEPT !.seen = @ \ {content_hash}]
    IN  IF del.exc # "none" THEN [d |-> del.d, exc |-> del.exc]
        ELSE \* self.ingest_documents([document], force=True)
             CallIngestDocuments(d2, << <<document>> >>, TRUE, faults, io, dbg)

Clear(d) ==
    LET r == StoreClear(d)   \* any exception of store.clear() is swallowed
    IN  [d |-> [r.d EXCEPT !.seen = {}], exc |-> "none"]

\* The content hashes carried by the records of the store.
StoredHashes(d) == {d.metadata[i].content_hash : i \in 1..Len(d.metadata)}

(***************************************************************************)
(* State after construction, and the Digestor's operations as actions on   *)
(* the engine "e1".                                                        *)
(***************************************************************************)
Ids == {"a", "b"}
GroupIds == {"g", "h"}
NoEngine == "none"
NoGroup == [defined |-> FALSE, members |-> <<>>]

\* No periodic task is scheduled and no caller is inside an operation.
NoTasks == [periodic_task |-> 0, running |-> {}]
NoThreads == <<>>

InitRest ==
    /\ instances = [i \in Ids |-> NoEngine]
    /\ groups = [g \in GroupIds |-> NoGroup]
    /\ scratchpad = <<>>
    /\ nextId = 1
    /\ op = [kind |-> "init"]
    /\ ret = None
    /\ hist = [commits |-> 0, flushes |-> 0, pure |-> TRUE]
    /\ tasks = NoTasks
    /\ jsonl = <<>>
    /\ threads = NoThreads

NoRanking == ranked = [e \in Engines |-> <<>>]

InitDigestor ==
    /\ \E k \in StoreKinds :
         engines = [e \in Engines |-> EmptyEngine(IF e = "e1" THEN k ELSE "faiss")]
    /\ InitRest
    /\ NoRanking

NChunks(content) == Len(chunk_text(content, ChunkSize, ChunkOverlap).val)

\* The batches handed to ingest_documents by DigestorIngestDocuments.
DocLists == {<<d>> : d \in Docs}

\* One set of failing chunk embeddings per document of the batch.
FaultsOf(docs) ==
    {f \in [1..Len(docs) -> SUBSET UNION {1..NChunks(c) : c \in Contents}] :
        \A i \in 1..Len(docs) : f[i] \subseteq 1..NChunks(docs[i].content)}

Filters ==
    {[path |-> p] : p \in Paths}
    \cup {[content_hash |-> HashContent(c)] : c \in Contents \ {<<>>}}

OtherUnchanged == UNCHANGED <<instances, groups, scratchpad, nextId, hist, ranked, tasks, threads, jsonl>>

DigestorIngestDocuments ==
    \E source \in Sources, docs \in DocLists, force \in BOOLEAN,
       io \in BOOLEAN, dbg \in BOOLEAN :
      \E faults \in FaultsOf(docs) :
        LET r == CallIngestDocuments(engines["e1"], <<source, docs>>, force,
                                     faults, io, dbg)
        IN  /\ Len(r.d.metadata) <= MaxStore
            /\ engines' = [engines EXCEPT !["e1"] = r.d]
            /\ op' = [kind |-> "ingest_documents", docs |-> docs, force |-> force]
            /\ ret' = Outcome(r.exc, TRUE, "None")
            /\ OtherUnchanged

DigestorDeleteByMetadata ==
    \E filters \in Filters, io \in BOOLEAN :
        LET r == DeleteByMetadata(engines["e1"], filters, io)
        IN  /\ engines' = [engines EXCEPT !["e1"] = r.d]
            /\ op' = [kind |-> "delete_by_metadata", filters |-> filters]
            /\ ret' = Outcome(r.exc, r.exc # "none", r.val)
            /\ OtherUnchanged

DigestorUpdateDocument ==
    \E document \in Docs, io \in BOOLEAN, dbg \in BOOLEAN :
      \E faults \in FaultsOf(<<document>>) :
        LET r == UpdateDocument(engines["e1"], document, faults, io, dbg)
        IN  /\ Len(r.d.metadata) <= MaxStore
            /\ engines' = [engines EXCEPT !["e1"] = r.d]
            /\ op' = [kind |-> "update_document", document |-> document]
            /\ ret' = Outcome(r.exc, TRUE, "None")
            /\ OtherUnchanged

DigestorClear ==
    LET r == Clear(engines["e1"])
    IN  /\ engines' = [engines EXCEPT !["e1"] = r.d]
        /\ op' = [kind |-> "clear"]
        /\ ret' = Outcome(r.exc, TRUE, "None")
        /\ OtherUnchanged

NextDigestor ==
    \/ DigestorIngestDocuments
    \/ DigestorDeleteByMetadata
    \/ DigestorUpdateDocument
    \/ DigestorClear

SpecDigestor == InitDigestor /\ [][NextDigestor]_vars

(***************************************************************************)
(* Claims about the Digestor (SpecDigestor).                               *)
(***************************************************************************)
LT == engines["e1"]

\* C1: after ingest_documents(source, [d], force=false) has returned for a
\* document d with non-empty content, a second ingest_documents call with the
\* same content and force=false, whatever the embedder, the backend and the
\* logger do, leaves store.count() and the stored records unchanged.
C1_SecondIngestIsNoOp ==
    (/\ op.kind = "ingest_documents"
     /\ ~op.force
     /\ ret.exc = "none"
     /\ op.docs[1].content # <<>>)
    => \A source \in Sources, path \in Paths, io \in BOOLEAN, dbg \in BOOLEAN :
         LET again == <<[path |-> path, content |-> op.docs[1].content]>>
         IN  \A faults \in FaultsOf(again) :
               LET second == CallIngestDocuments(LT, <<source, again>>, FALSE,
                                                 faults, io, dbg)
               IN  /\ StoreCount(second.d) = StoreCount(LT)
                   /\ second.d.vectors = LT.vectors
                   /\ second.d.metadata = LT.metadata

\* C1 witness: a first ingest of a non-empty document returned and wrote
\* records; the same call repeated from here is the second call.
C1_Witness ==
    /\ op.kind = "ingest_documents"
    /\ ~op.force
    /\ ret.exc = "none"
    /\ op.docs[1].content # <<>>
    /\ StoreCount(LT) > 0
    /\ HashContent(op.docs[1].content) \in LT.seen

\* C6: after every Digestor operation that returns, _seen_hashes equals the
\* set of content_hash values carried by the records in the store.
C6_SeenEqualsStored ==
    (op.kind \in {"ingest_documents", "delete_by_metadata", "update_document", "clear"}
     /\ ret.exc = "none")
    => LT.seen = StoredHashes(LT)

\* C7: update_document(document) returns normally; afterwards every record
\* stored for document.path is a chunk of the new content and the hash of the
\* new content is seen.
C7_UpdateReplaces ==
    op.kind = "update_document"
    => /\ ret.exc = "none"
       /\ \A i \in 1..Len(LT.metadata) :
            LT.metadata[i].path = op.document.path
            => LT.metadata[i].content_hash = HashContent(op.document.content)
       /\ (op.document.content # <<>>
           => HashContent(op.document.content) \in LT.seen)

\* C8: after clear() returns the adapter holds no records and _seen_hashes is
\* empty.
C8_ClearEmpties ==
    op.kind = "clear" => (StoreCount(LT) = 0 /\ LT.metadata = <<>> /\ LT.seen = {})

(***************************************************************************)
(* memory_manager.MemoryManager (scratchpad) and memory_layers             *)
(***************************************************************************)
EntryContents == {"x", "y"}
SessionSummaryPath == "<session-summary>"

\* MemoryManager.add_scratch, reached through WorkingMemory.add
\* (mutant of AddScratch: the new entry is put in front of the list)
AddScratchInFront(scratch, entry) == <<entry>> \o scratch

AddScratch(scratch, entry) == Append(scratch, entry)

\* MemoryManager.get_scratch (a copy), reached through WorkingMemory.list
GetScratch(scratch) == scratch

\* WorkingMemory.clear: self._mgr.scratchpad.clear()
WorkingClear(scratch) == <<>>

\* '\n'.join(e.content for e in entries), as the list of the joined contents
Combined(entries) == [i \in 1..Len(entries) |-> entries[i].content]

\* What the summarizer does with the combined text: it raises or returns a text.
SumOutcomes ==
    {[raises |-> TRUE, text |-> <<>>]}
    \cup {[raises |-> FALSE, text |-> t] : t \in Contents}

\* (mutant of Flush: a summarizer failure clears the buffer)
FlushClearsOnSummarizerFailure(scratch, lt, sum, faults, io, dbg) ==
    LET ing == CallIngestDocuments(lt,
                   << <<[path |-> SessionSummaryPath, content |-> sum.text]>> >>,
                   TRUE, faults, io, dbg)
    IN  IF Len(scratch) < Threshold
        THEN [scratch |-> scratch, lt |-> lt, ret |-> None,
              called |-> FALSE, promoted |-> FALSE, ingestExc |-> "none"]
        ELSE IF sum.raises
        THEN [scratch |-> WorkingClear(scratch), lt |-> lt, ret |-> None,
              called |-> TRUE, promoted |-> FALSE, ingestExc |-> "none"]
        ELSE IF ing.exc # "none"
        THEN [scratch |-> scratch, lt |-> ing.d, ret |-> None,
              called |-> TRUE, promoted |-> FALSE, ingestExc |-> ing.exc]
        ELSE [scratch |-> WorkingClear(scratch), lt |-> ing.d,
              ret |-> Outcome("none", FALSE, sum.text),
              called |-> TRUE, promoted |-> TRUE, ingestExc |-> "none"]

\* (mutant of Flush: the threshold is not looked at)
FlushIgnoresThreshold(scratch, lt, sum, faults, io, dbg) ==
    LET ing == CallIngestDocuments(lt,
                   << <<[path |-> SessionSummaryPath, content |-> sum.text]>> >>,
                   TRUE, faults, io, dbg)
    IN  IF sum.raises
        THEN [scratch |-> scratch, lt |-> lt, ret |-> None,
              called |-> TRUE, promoted |-> FALSE, ingestExc |-> "none"]
        ELSE IF ing.exc # "none"
        THEN [scratch |-> scratch, lt |-> ing.d, ret |-> None,
              called |-> TRUE, promoted |-> FALSE, ingestExc |-> ing.exc]
        ELSE [scratch |-> WorkingClear(scratch), lt |-> ing.d,
              ret |-> Outcome("none", FALSE, sum.text),
              called |-> TRUE, promoted |-> TRUE, ingestExc |-> "none"]

\* (mutant of Flush: Working is cleared although the ingestion raised)
FlushClearsOnIngestFailure(scratch, lt, sum, faults, io, dbg) ==
    LET ing == CallIngestDocuments(lt,
                   << <<[path |-> SessionSummaryPath, content |-> sum.text]>> >>,
                   TRUE, faults, io, dbg)
    IN  IF Len(scratch) < Threshold
        THEN [scratch |-> scratch, lt |-> lt, ret |-> None,
              called |-> FALSE, promoted |-> FALSE, ingestExc |-> "none"]
        ELSE IF sum.raises
        THEN [scratch |-> scratch, lt |-> lt, ret |-> None,
              called |-> TRUE, promoted |-> FALSE, ingestExc |-> "none"]
        ELSE IF ing.exc # "none"
        THEN [scratch |-> WorkingClear(scratch), lt |-> ing.d, ret |-> None,
              called |-> TRUE, promoted |-> FALSE, ingestExc |-> ing.exc]
        ELSE [scratch |-> WorkingClear(scratch), lt |-> ing.d,
              ret |-> Outcome("none", FALSE, sum.text),
              called |-> TRUE, promoted |-> TRUE, ingestExc |-> "none"]

\* ShortTermMemory.flush.  sum is the summarizer's outcome; faults, io, dbg are
\* the embedder's, the backend's and the logger's behaviour during the
\* ingestion.  called: the summarizer was called; promoted: the try block ran
\* to its end (summary ingested, Working cleared); ingestExc: the exception
\* ingest_documents raised into the except clause.
Flush(scratch, lt, sum, faults, io, dbg) ==
    LET entries == GetScratch(scratch)
        \* self._longterm.ingest_documents([{path, content}], force=True)
        ing == CallIngestDocuments(lt,
                   << <<[path |-> SessionSummaryPath, content |-> sum.text]>> >>,
                   TRUE, faults, io, dbg)
    IN  IF Len(entries) < Threshold
        THEN [scratch |-> scratch, lt |-> lt, ret |-> None,
              called |-> FALSE, promoted |-> FALSE, ingestExc |-> "none"]
        ELSE IF sum.raises
        THEN [scratch |-> scratch, lt |-> lt, ret |-> None,
              called |-> TRUE, promoted |-> FALSE, ingestExc |-> "none"]
        ELSE IF ing.exc # "none"
        THEN [scratch |-> scratch, lt |-> ing.d, ret |-> None,
              called |-> TRUE, promoted |-> FALSE, ingestExc |-> ing.exc]
        ELSE [scratch |-> WorkingClear(scratch), lt |-> ing.d,
              ret |-> Outcome("none", FALSE, sum.text),
              called |-> TRUE, promoted |-> TRUE, ingestExc |-> "none"]

\* The collaborators did not fail during a flush.
FaultFree(sum, faults, io) == ~sum.raises /\ ~io /\ faults[1] = {}

SummaryFaults(sum) == FaultsOf(<<[path |-> SessionSummaryPath, content |-> sum.text]>>)

FlushOp(kind, before, f, sum, faults, io) ==
    [kind |-> kind, n |-> Len(before), called |-> f.called,
     sumRaises |-> f.called /\ sum.raises, ingestExc |-> f.ingestExc,
     faultFree |-> FaultFree(sum, faults, io), summary |-> sum.text]

InitLayers ==
    /\ \E k \in StoreKinds :
         engines = [e \in Engines |-> EmptyEngine(IF e = "e1" THEN k ELSE "faiss")]
    /\ InitRest
    /\ NoRanking

\* MemoryLayers.commit_turn(entry)
LayersCommitTurn ==
    \E content \in EntryContents, sum \in SumOutcomes, io \in BOOLEAN, dbg \in BOOLEAN :
      \E faults \in SummaryFaults(sum) :
        LET entry == [id |-> nextId, content |-> content]
            added == AddScratch(scratchpad, entry)
            f == Flush(added, engines["e1"], sum, faults, io, dbg)
        IN  /\ nextId <= MaxEntries
            /\ scratchpad' = f.scratch
            /\ engines' = [engines EXCEPT !["e1"] = f.lt]
            /\ nextId' = nextId + 1
            /\ op' = FlushOp("commit_turn", added, f, sum, faults, io)
            /\ ret' = None
            /\ hist' = [commits |-> hist.commits + 1,
                        flushes |-> hist.flushes + (IF f.promoted THEN 1 ELSE 0),
                        pure |-> hist.pure /\ FaultFree(sum, faults, io)]
            /\ UNCHANGED <<instances, groups, ranked, tasks, threads, jsonl>>

\* ShortTermMemory.flush() called on its own (by the periodic task or a caller)
LayersFlush ==
    \E sum \in SumOutcomes, io \in BOOLEAN, dbg \in BOOLEAN :
      \E faults \in SummaryFaults(sum) :
        LET f == Flush(scratchpad, engines["e1"], sum, faults, io, dbg)
        IN  /\ scratchpad' = f.scratch
            /\ engines' = [engines EXCEPT !["e1"] = f.lt]
            /\ op' = FlushOp("flush", scratchpad, f, sum, faults, io)
            /\ ret' = f.ret
            /\ hist' = [hist EXCEPT !.pure = FALSE,
                          !.flushes = @ + (IF f.promoted THEN 1 ELSE 0)]
            /\ UNCHANGED <<instances, groups, nextId, ranked, tasks, threads, jsonl>>

\* MemoryLayers.clear_all: working.clear(), then LongTermMemory.clear()
LayersClearAll ==
    /\ scratchpad' = WorkingClear(scratchpad)
    /\ engines' = [engines EXCEPT !["e1"] = Clear(engines["e1"]).d]
    /\ op' = [kind |-> "clear_all"]
    /\ ret' = None
    /\ hist' = [hist EXCEPT !.pure = FALSE]
    /\ UNCHANGED <<instances, groups, nextId, ranked, tasks, threads, jsonl>>

NextLayers ==
    \/ LayersCommitTurn
    \/ LayersFlush
    \/ LayersClearAll

SpecLayers == InitLayers /\ [][NextLayers]_vars

(***************************************************************************)
(* Claims about the memory layers (SpecLayers).                            *)
(***************************************************************************)

\* C2: if the summarizer raises or the Long-Term ingestion raises during
\* flush(), flush() returns None, no exception reaches the caller, and
\* Working holds exactly the entries it held before, in the same order.
C2_FailedFlushKeepsWorking ==
    [][(op'.kind = "flush" /\ (op'.sumRaises \/ op'.ingestExc # "none"))
       => (ret'.exc = "none" /\ ret'.isNone /\ scratchpad' = scratchpad)]_vars

\* C2 witness: a flush at or over the threshold whose summarizer raised.
C2_Witness ==
    /\ op.kind = "flush"
    /\ op.sumRaises
    /\ op.n >= Threshold
    /\ Len(scratchpad) = op.n
    /\ ret.isNone

\* C3: when Working holds at least threshold entries and neither the
\* summarizer nor the store fails, flush() returns the non-empty summary, the
\* summary is in the Long-Term store as a document with path
\* "<session-summary>", and Working is empty afterwards.
C3_FlushPromotes ==
    (op.kind = "flush" /\ op.n >= Threshold /\ op.faultFree /\ op.summary # <<>>)
    => /\ ret.exc = "none"
       /\ ~ret.isNone
       /\ ret.val = op.summary
       /\ scratchpad = <<>>
       /\ StoreCount(LT) > 0
       /\ \E i \in 1..Len(LT.metadata) : LT.metadata[i].path = SessionSummaryPath

\* C4: with a summarizer and store that never fail and only commit_turn
\* calls from an empty Working tier, after every commit_turn Working holds
\* fewer than threshold entries and n calls made floor(n/threshold) flushes.
C4_CommitTurnBounded ==
    (hist.pure /\ op.kind = "commit_turn")
    => /\ Len(scratchpad) < Threshold
       /\ hist.flushes = hist.commits \div Threshold

(***************************************************************************)
(* digestor_manager.DigestorManager                                        *)
(* inst is _instances (NoEngine: the id is not a key), grps is _groups     *)
(* (defined = FALSE: the group id is not a key), engs the engines' states. *)
(***************************************************************************)
IndexOfFrom(s, x, i) == CHOOSE j \in i..Len(s) : s[j] = x /\ \A m \in i..(j - 1) : s[m] # x

\* list.remove(x): the first occurrence goes
RemoveFirst(s, x) ==
    LET j == IndexOfFrom(s, x, 1)
    IN  SubSeq(s, 1, j - 1) \o SubSeq(s, j + 1, Len(s))

\* (mutant of RegisterInstance: a taken id is bound again)
RegisterInstanceOverwrites(inst, id, engine) ==
    [instances |-> [inst EXCEPT ![id] = engine],
     exc |-> IF inst[id] # NoEngine THEN "ValueError" ELSE "none"]

RegisterInstance(inst, id, engine) ==
    IF inst[id] # NoEngine THEN [instances |-> inst, exc |-> "ValueError"]
    ELSE [instances |-> [inst EXCEPT ![id] = engine], exc |-> "none"]

UpdateInstance(inst, id, engine) ==
    IF inst[id] = NoEngine THEN [instances |-> inst, exc |-> "KeyError"]
    ELSE [instances |-> [inst EXCEPT ![id] = engine], exc |-> "none"]

\* lines 120-122: for members in self._groups.values():
\*                    if instance_id in members: members.remove(instance_id)
DropFromGroups(grps, id) ==
    [g \in DOMAIN grps |->
        IF grps[g].defined /\ id \in Range(grps[g].members)
        THEN [grps[g] EXCEPT !.members = RemoveFirst(@, id)]
        ELSE grps[g]]

\* (mutant of DeleteInstance: the registry entry survives the call)
DeleteInstanceKeepsBinding(inst, grps, engs, id) ==
    IF inst[id] = NoEngine
    THEN [instances |-> inst, groups |-> grps, engines |-> engs, exc |-> "KeyError"]
    ELSE [instances |-> inst,
          groups |-> DropFromGroups(grps, id),
          engines |-> [engs EXCEPT ![inst[id]] = Clear(@).d],
          exc |-> "none"]

DeleteInstance(inst, grps, engs, id) ==
    IF inst[id] = NoEngine
    THEN [instances |-> inst, groups |-> grps, engines |-> engs, exc |-> "KeyError"]
    ELSE [instances |-> [inst EXCEPT ![id] = NoEngine],
          groups |-> DropFromGroups(grps, id),
          engines |-> [engs EXCEPT ![inst[id]] = Clear(@).d],
          exc |-> "none"]

\* (mutant of CreateGroup: the group is created before its ids are validated)
CreateGroupThenValidate(inst, grps, gid, ids) ==
    IF grps[gid].defined THEN [groups |-> grps, exc |-> "ValueError"]
    ELSE [groups |-> [grps EXCEPT ![gid] = [defined |-> TRUE, members |-> ids]],
          exc |-> IF \E i \in 1..Len(ids) : inst[ids[i]] = NoEngine
                  THEN "KeyError" ELSE "none"]

\* list(instance_ids) is a new list: the group holds the ids as they are at
\* the call.
CreateGroup(inst, grps, gid, ids) ==
    IF grps[gid].defined THEN [groups |-> grps, exc |-> "ValueError"]
    ELSE IF \E i \in 1..Len(ids) : inst[ids[i]] = NoEngine
    THEN [groups |-> grps, exc |-> "KeyError"]
    ELSE [groups |-> [grps EXCEPT ![gid] = [defined |-> TRUE, members |-> ids]],
          exc |-> "none"]

DeleteGroup(grps, gid) ==
    IF ~grps[gid].defined THEN [groups |-> grps, exc |-> "KeyError"]
    ELSE [groups |-> [grps EXCEPT ![gid] = NoGroup], exc |-> "none"]

AddToGroup(inst, grps, gid, id) ==
    IF ~grps[gid].defined THEN [groups |-> grps, exc |-> "KeyError"]
    ELSE IF inst[id] = NoEngine THEN [groups |-> grps, exc |-> "KeyError"]
    ELSE IF id \notin Range(grps[gid].members)
    THEN [groups |-> [grps EXCEPT ![gid].members = Append(@, id)], exc |-> "none"]
    ELSE [groups |-> grps, exc |-> "none"]

RemoveFromGroup(grps, gid, id) ==
    IF ~grps[gid].defined \/ id \notin Range(grps[gid].members)
    THEN [groups |-> grps, exc |-> "KeyError"]
    ELSE [groups |-> [grps EXCEPT ![gid].members = RemoveFirst(@, id)],
          exc |-> "none"]

\* get_group: the engines of the listed ids; self._instances[iid] of an id
\* that is not registered is a KeyError.
GetGroup(inst, grps, gid) ==
    IF ~grps[gid].defined THEN [exc |-> "KeyError", val |-> <<>>]
    ELSE IF \E i \in 1..Len(grps[gid].members) : inst[grps[gid].members[i]] = NoEngine
    THEN [exc |-> "KeyError", val |-> <<>>]
    ELSE [exc |-> "none",
          val |-> [i \in 1..Len(grps[gid].members) |-> inst[grps[gid].members[i]]]]

RECURSIVE ClearEach(_, _, _)
ClearEach(engs, list, i) ==
    IF i > Len(list) THEN engs
    ELSE ClearEach([engs EXCEPT ![list[i]] = Clear(@).d], list, i + 1)

ClearGroup(inst, grps, engs, gid) ==
    LET got == GetGroup(inst, grps, gid)
    IN  IF got.exc # "none" THEN [engines |-> engs, exc |-> got.exc]
        ELSE [engines |-> ClearEach(engs, got.val, 1), exc |-> "none"]

ClearAll(inst, grps, engs) ==
    [instances |-> [i \in DOMAIN inst |-> NoEngine],
     groups |-> [g \in DOMAIN grps |-> NoGroup],
     engines |-> [e \in DOMAIN engs |->
                    IF \E i \in DOMAIN inst : inst[i] = e THEN Clear(engs[e]).d
                    ELSE engs[e]],
     exc |-> "none"]

(***************************************************************************)
(* The registry's operations as actions (SpecManager).  Both engines hold  *)
(* one ingested document when the registry is constructed.                 *)
(***************************************************************************)
Seeded(kind, content) ==
    IngestDocuments(EmptyEngine(kind), "src", <<[path |-> "p", content |-> content]>>,
                    FALSE, <<{}>>, FALSE, FALSE).d

IdLists == UNION {[1..n -> Ids] : n \in 0..MaxMembers}

InitManager ==
    /\ engines = [e \in Engines |->
                    Seeded(IF e = "e1" THEN "faiss" ELSE "chroma", <<1>>)]
    /\ InitRest
    /\ NoRanking

RegistryOnly == UNCHANGED <<scratchpad, nextId, hist, ranked, tasks, threads, jsonl>>

ManagerRegisterInstance ==
    \E id \in Ids, e \in Engines :
        LET r == RegisterInstance(instances, id, e)
        IN  /\ instances' = r.instances
            /\ op' = [kind |-> "register_instance", id |-> id, engine |-> e]
            /\ ret' = Outcome(r.exc, TRUE, "None")
            /\ UNCHANGED <<groups, engines>> /\ RegistryOnly

ManagerUpdateInstance ==
    \E id \in Ids, e \in Engines :
        LET r == UpdateInstance(instances, id, e)
        IN  /\ instances' = r.instances
            /\ op' = [kind |-> "update_instance", id |-> id, engine |-> e]
            /\ ret' = Outcome(r.exc, TRUE, "None")
            /\ UNCHANGED <<groups, engines>> /\ RegistryOnly

ManagerDeleteInstance ==
    \E id \in Ids :
        LET r == DeleteInstance(instances, groups, engines, id)
        IN  /\ instances' = r.instances
            /\ groups' = r.groups
            /\ engines' = r.engines
            /\ op' = [kind |-> "delete_instance", id |-> id]
            /\ ret' = Outcome(r.exc, TRUE, "None")
            /\ RegistryOnly

ManagerCreateGroup ==
    \E gid \in GroupIds, ids \in IdLists :
        LET r == CreateGroup(instances, groups, gid, ids)
        IN  /\ groups' = r.groups
            /\ op' = [kind |-> "create_group", id |-> gid, ids |-> ids]
            /\ ret' = Outcome(r.exc, TRUE, "None")
            /\ UNCHANGED <<instances, engines>> /\ RegistryOnly

ManagerDeleteGroup ==
    \E gid \in GroupIds :
        LET r == DeleteGroup(groups, gid)
        IN  /\ groups' = r.groups
            /\ op' = [kind |-> "delete_group", id |-> gid]
            /\ ret' = Outcome(r.exc, TRUE, "None")
            /\ UNCHANGED <<instances, engines>> /\ RegistryOnly

ManagerAddToGroup ==
    \E gid \in GroupIds, id \in Ids :
        LET r == AddToGroup(instances, groups, gid, id)
        IN  /\ groups' = r.groups
            /\ op' = [kind |-> "add_to_group", id |-> id]
            /\ ret' = Outcome(r.exc, TRUE, "None")
            /\ UNCHANGED <<instances, engines>> /\ RegistryOnly

ManagerRemoveFromGroup ==
    \E gid \in GroupIds, id \in Ids :
        LET r == RemoveFromGroup(groups, gid, id)
        IN  /\ groups' = r.groups
            /\ op' = [kind |-> "remove_from_group", id |-> id]
            /\ ret' = Outcome(r.exc, TRUE, "None")
            /\ UNCHANGED <<instances, engines>> /\ RegistryOnly

ManagerGetGroup ==
    \E gid \in GroupIds :
        LET r == GetGroup(instances, groups, gid)
        IN  /\ op' = [kind |-> "get_group", id |-> gid]
            /\ ret' = Outcome(r.exc, r.exc # "none", r.val)
            /\ UNCHANGED <<instances, groups, engines>> /\ RegistryOnly

ManagerClearGroup ==
    \E gid \in GroupIds :
        LET r == ClearGroup(instances, groups, engines, gid)
        IN  /\ engines' = r.engines
            /\ op' = [kind |-> "clear_group", id |-> gid]
            /\ ret' = Outcome(r.exc, TRUE, "None")
            /\ UNCHANGED <<instances, groups>> /\ RegistryOnly

ManagerClearAll ==
    LET r == ClearAll(instances, groups, engines)
    IN  /\ instances' = r.instances
        /\ groups' = r.groups
        /\ engines' = r.engines
        /\ op' = [kind |-> "clear_all"]
        /\ ret' = Outcome(r.exc, TRUE, "None")
        /\ RegistryOnly

NextManager ==
    \/ ManagerRegisterInstance
    \/ ManagerUpdateInstance
    \/ ManagerDeleteInstance
    \/ ManagerCreateGroup
    \/ ManagerDeleteGroup
    \/ ManagerAddToGroup
    \/ ManagerRemoveFromGroup
    \/ ManagerGetGroup
    \/ ManagerClearGroup
    \/ ManagerClearAll

SpecManager == InitManager /\ [][NextManager]_vars

(***************************************************************************)
(* Claims about the registry (SpecManager).                                *)
(***************************************************************************)

\* C5: after any sequence of registry operations every instance id listed in
\* a group is a registered instance; after delete_instance(id) no group
\* contains id; get_group on an existing group does not fail.
C5_GroupsReferenceRegistered ==
    /\ \A g \in GroupIds :
         groups[g].defined
         => \A i \in 1..Len(groups[g].members) :
              instances[groups[g].members[i]] # NoEngine
    /\ (op.kind = "delete_instance" /\ ret.exc = "none")
       => \A g \in GroupIds : op.id \notin Range(groups[g].members)
    /\ (op.kind = "get_group" /\ groups[op.id].defined)
       => (ret.exc = "none" /\ Len(ret.val) = Len(groups[op.id].members))

(***************************************************************************)
(* Retrieval: the adapters' search, Digestor.query and                     *)
(* DigestorManager.query_group.                                            *)
(* scores[j] is the score the vector index gives the j-th record it        *)
(* returns; a hit is the record's metadata with its score.                 *)
(***************************************************************************)
Scores == {1, 2}

Hit(meta, score) == [meta |-> meta, score |-> score]

\* FaissVectorStore.search: index.search returns k rows; a row past the
\* vectors the index holds has idx -1, and self.metadata[-1] is the last
\* metadata entry (IndexError when the list is empty).
FaissSearch(d, scores, k) ==
    LET n == Min(Len(d.vectors), Len(scores))
    IN  IF n > Len(d.metadata) \/ (k > n /\ d.metadata = <<>>)
        THEN [exc |-> "IndexError", val |-> <<>>]
        ELSE [exc |-> "none",
              val |-> [j \in 1..k |->
                         IF j <= n THEN Hit(d.metadata[j], scores[j])
                         ELSE Hit(d.metadata[Len(d.metadata)], PadScore)]]

\* ChromaVectorStore.search: at most n_results records, [] when there is
\* none (the entry's text field plays no part in the merge and is left out)
ChromaSearch(d, scores, k) ==
    LET n == Min(Len(d.metadata), Len(scores))
    IN  [exc |-> "none",
         val |-> [j \in 1..Min(k, n) |-> Hit(d.metadata[j], scores[j])]]

StoreSearch(d, scores, k) ==
    IF d.kind = "faiss" THEN FaissSearch(d, scores, k) ELSE ChromaSearch(d, scores, k)

\* (mutant of Query: a failure of the embedder or the backend is not caught)
QueryIgnoresFailure(d, scores, k, down) == StoreSearch(d, scores, k).val

\* Digestor.query: down is whether the embedder or the backend fails
Query(d, scores, k, down) ==
    LET found == StoreSearch(d, scores, k)
    IN  IF down THEN <<>>
        ELSE IF found.exc # "none" THEN <<>>
        ELSE found.val

\* (mutant of InsertDesc: an entry goes before the entries of equal score)
RECURSIVE InsertBeforeTies(_, _)
InsertBeforeTies(sorted, x) ==
    IF sorted = <<>> THEN <<x>>
    ELSE IF Head(sorted).score > x.score
    THEN <<Head(sorted)>> \o InsertBeforeTies(Tail(sorted), x)
    ELSE <<x>> \o sorted

\* sorted(all_results, key=score, reverse=True) is stable: an entry goes
\* after every entry already placed whose score is at least its own.
RECURSIVE InsertDesc(_, _)
InsertDesc(sorted, x) ==
    IF sorted = <<>> THEN <<x>>
    ELSE IF Head(sorted).score >= x.score
    THEN <<Head(sorted)>> \o InsertDesc(Tail(sorted), x)
    ELSE <<x>> \o sorted

RECURSIVE SortFrom(_, _, _)
SortFrom(all, i, acc) ==
    IF i > Len(all) THEN acc ELSE SortFrom(all, i + 1, InsertDesc(acc, all[i]))

SortByScoreDesc(all) == SortFrom(all, 1, <<>>)

NoTopK == [given |-> FALSE, n |-> 0]
TopKs == {NoTopK} \cup {[given |-> TRUE, n |-> m] : m \in 0..MaxTopK}

\* line 266: sorted_results[:top_k] if top_k else sorted_results
TakeTopK(sorted, top_k) ==
    IF top_k.given /\ top_k.n # 0
    THEN SubSeq(sorted, 1, Min(top_k.n, Len(sorted)))
    ELSE sorted

\* (mutant of ExtendAll: a member whose query fails ends the loop)
RECURSIVE ExtendAllUntilFailure(_, _, _, _, _, _)
ExtendAllUntilFailure(list, engs, scores, k, down, i) ==
    IF i > Len(list) \/ list[i] \in down THEN <<>>
    ELSE LET res == Query(engs[list[i]], scores[list[i]], k, FALSE)
         IN  [j \in 1..Len(res) |->
                [meta |-> res[j].meta, score |-> res[j].score, obj |-> <<i, j>>]]
             \o ExtendAllUntilFailure(list, engs, scores, k, down, i + 1)

\* The results of the members from position i on, each entry with the dict
\* object it is: obj = <<position of the member in the group, rank>>.
RECURSIVE ExtendAll(_, _, _, _, _, _)
ExtendAll(list, engs, scores, k, down, i) ==
    IF i > Len(list) THEN <<>>
    ELSE LET res == Query(engs[list[i]], scores[list[i]], k, list[i] \in down)
         IN  [j \in 1..Len(res) |->
                [meta |-> res[j].meta, score |-> res[j].score, obj |-> <<i, j>>]]
             \o ExtendAll(list, engs, scores, k, down, i + 1)

\* query_group(group_id, text, k_per_instance, top_k); down: the engines whose
\* embedder or backend fails during the call.
QueryGroup(inst, grps, engs, scores, gid, k, top_k, down) ==
    LET got == GetGroup(inst, grps, gid)
        all_results == ExtendAll(got.val, engs, scores, k, down, 1)
    IN  IF got.exc # "none" THEN [exc |-> got.exc, val |-> <<>>, all |-> <<>>]
        ELSE [exc |-> "none",
              val |-> TakeTopK(SortByScoreDesc(all_results), top_k),
              all |-> all_results]

(***************************************************************************)
(* SpecQuery: a registry with the instances a, b and a group g of any      *)
(* member list; each engine holds one ingested document and the index      *)
(* scores each of its records.  The only operation is query_group.         *)
(***************************************************************************)
ScoreLists(n) == [1..n -> Scores]

\* The documents an engine has ingested before the query.
SeedDocs ==
    LET p == [path |-> "p", content |-> <<1>>]
        q == [path |-> "q", content |-> <<1, 2>>]
    IN  {<<>>, <<p>>, <<q>>}

SeededWith(kind, docs) ==
    IngestDocuments(EmptyEngine(kind), "src", docs, FALSE,
                    [i \in 1..Len(docs) |-> {}], FALSE, FALSE).d

InitQuery ==
    /\ \E d1 \in SeedDocs, d2 \in SeedDocs :
         /\ engines = [e \in Engines |->
                         IF e = "e1" THEN SeededWith("faiss", d1)
                         ELSE SeededWith("chroma", d2)]
         /\ \E s1 \in ScoreLists(Len(SeededWith("faiss", d1).metadata)),
               s2 \in ScoreLists(Len(SeededWith("chroma", d2).metadata)) :
              ranked = [e \in Engines |-> IF e = "e1" THEN s1 ELSE s2]
    /\ instances = [i \in Ids |-> IF i = "a" THEN "e1" ELSE "e2"]
    /\ \E ids \in IdLists :
         groups = [g \in GroupIds |->
                     IF g = "g" THEN [defined |-> TRUE, members |-> ids] ELSE NoGroup]
    /\ scratchpad = <<>>
    /\ nextId = 1
    /\ op = [kind |-> "init"]
    /\ ret = None
    /\ hist = [commits |-> 0, flushes |-> 0, pure |-> TRUE]
    /\ tasks = NoTasks
    /\ jsonl = <<>>
    /\ threads = NoThreads

ManagerQueryGroup ==
    \E gid \in GroupIds, k \in {1, DefaultK}, top_k \in TopKs,
       down \in {{}} \cup {{e} : e \in Engines} :
        LET r == QueryGroup(instances, groups, engines, ranked, gid, k, top_k, down)
        IN  /\ op' = [kind |-> "query_group", id |-> gid, top_k |-> top_k,
                      all |-> r.all]
            /\ ret' = Outcome(r.exc, r.exc # "none", r.val)
            /\ UNCHANGED <<engines, instances, groups, scratchpad, nextId, hist, ranked, tasks, threads, jsonl>>

NextQuery == ManagerQueryGroup

SpecQuery == InitQuery /\ [][NextQuery]_vars

(***************************************************************************)
(* Claims about query_group (SpecQuery).                                   *)
(***************************************************************************)
\* obj p is before obj q in the concatenation of the members' results
Before(p, q) == p[1] < q[1] \/ (p[1] = q[1] /\ p[2] < q[2])

\* C9: query_group returns the concatenation of the members' results, taken
\* in group order, sorted by score in descending order, entries of equal
\* score staying in their concatenation order.
C9_SortedStableMerge ==
    (op.kind = "query_group" /\ ret.exc = "none" /\ ~op.top_k.given)
    => /\ Len(ret.val) = Len(op.all)
       /\ Range(ret.val) = Range(op.all)
       /\ \A i \in 1..Len(op.all), j \in 1..Len(op.all) :
            i < j => Before(op.all[i].obj, op.all[j].obj)
       /\ \A i \in 1..Len(ret.val), j \in 1..Len(ret.val) :
            i < j => \/ ret.val[i].score > ret.val[j].score
                     \/ /\ ret.val[i].score = ret.val[j].score
                        /\ Before(ret.val[i].obj, ret.val[j].obj)

\* C9 witness: a merge of two members in which an entry of the second member
\* precedes an entry of the first, and two entries of equal score from
\* different members are both present.
C9_Witness ==
    /\ op.kind = "query_group" /\ ret.exc = "none" /\ ~op.top_k.given
    /\ \E i \in 1..Len(ret.val), j \in 1..Len(ret.val) :
         i < j /\ ret.val[i].obj[1] > ret.val[j].obj[1]
    /\ \E i \in 1..Len(ret.val), j \in 1..Len(ret.val) :
         /\ ret.val[i].obj[1] # ret.val[j].obj[1]
         /\ ret.val[i].score = ret.val[j].score

\* C10: whenever top_k is given as an integer n >= 0 (n = 0 included), the
\* result is the first min(n, total) entries of the sorted merge.
C10_TopKTruncates ==
    (op.kind = "query_group" /\ ret.exc = "none" /\ op.top_k.given)
    => /\ Len(ret.val) = Min(op.top_k.n, Len(op.all))
       /\ ret.val = SubSeq(SortByScoreDesc(op.all), 1, Len(ret.val))

(***************************************************************************)
(* Recall: MemoryLayers.query_all and Digestor.query on the Long-Term      *)
(* engine "e1".                                                            *)
(***************************************************************************)
\* list[-k:] for k >= 0: -0 is 0, so k = 0 takes the whole list
LastK(list, k) ==
    IF k = 0 THEN list
    ELSE SubSeq(list, IF Len(list) > k THEN Len(list) - k + 1 ELSE 1, Len(list))

Tagged(source, entries) ==
    [j \in 1..Len(entries) |-> [source |-> source, entry |-> entries[j]]]

\* LongTermMemory.query: Digestor.query inside try/except (returns [])
LongTermQuery(d, scores, k, down) == Query(d, scores, k, down)

\* (mutant of QueryAll: nothing is returned when the Long-Term query fails)
QueryAllEmptyOnFailure(scratch, d, scores, k_work, k_long, down) ==
    IF down \/ StoreSearch(d, scores, k_long).exc # "none" THEN <<>>
    ELSE Tagged("working", LastK(GetScratch(scratch), k_work))
         \o Tagged("longterm", LongTermQuery(d, scores, k_long, down))

\* MemoryLayers.query_all(text, k_work, k_long)
QueryAll(scratch, d, scores, k_work, k_long, down) ==
    LET work_entries == LastK(GetScratch(scratch), k_work)
        work_results == Tagged("working", work_entries)
        long_results == Tagged("longterm", LongTermQuery(d, scores, k_long, down))
    IN  work_results \o long_results

InitRecall ==
    /\ \E kind \in StoreKinds, docs \in SeedDocs :
         /\ engines = [e \in Engines |->
                         IF e = "e1" THEN SeededWith(kind, docs) ELSE EmptyEngine("faiss")]
         /\ \E s1 \in ScoreLists(Len(SeededWith(kind, docs).metadata)) :
              ranked = [e \in Engines |-> IF e = "e1" THEN s1 ELSE <<>>]
    /\ InitRest

\* WorkingMemory.add(entry)
WorkingAdd ==
    \E content \in EntryContents :
        /\ nextId <= MaxEntries
        /\ scratchpad' = AddScratch(scratchpad, [id |-> nextId, content |-> content])
        /\ nextId' = nextId + 1
        /\ op' = [kind |-> "add"]
        /\ ret' = None
        /\ UNCHANGED <<engines, instances, groups, hist, ranked, tasks, threads, jsonl>>

\* failed: the embedder or the adapter's search raised during the call
LayersQueryAll ==
    \E k_work \in 0..MaxKWork, k_long \in {1, DefaultK}, down \in BOOLEAN :
        /\ op' = [kind |-> "query_all", k_work |-> k_work, k_long |-> k_long,
                  failed |-> down \/ StoreSearch(LT, ranked["e1"], k_long).exc # "none"]
        /\ ret' = Outcome("none", FALSE,
                          QueryAll(scratchpad, LT, ranked["e1"], k_work, k_long, down))
        /\ UNCHANGED <<engines, instances, groups, scratchpad, nextId, hist, ranked, tasks, threads, jsonl>>

DigestorQuery ==
    \E k \in {1, DefaultK}, down \in BOOLEAN :
        /\ op' = [kind |-> "query", k |-> k, down |-> down]
        /\ ret' = Outcome("none", FALSE, Query(LT, ranked["e1"], k, down))
        /\ UNCHANGED <<engines, instances, groups, scratchpad, nextId, hist, ranked, tasks, threads, jsonl>>

NextRecall ==
    \/ WorkingAdd
    \/ LayersQueryAll
    \/ DigestorQuery

SpecRecall == InitRecall /\ [][NextRecall]_vars

(***************************************************************************)
(* Claims about recall (SpecRecall).                                       *)
(***************************************************************************)
\* The elements of a query_all result with the given source tag.
FromSource(result, source) == {j \in 1..Len(result) : result[j].source = source}

\* C11: query_all returns first the min(k_work, len(Working)) most recent
\* Working entries, oldest to newest, tagged "working", then at most k_long
\* Long-Term results tagged "longterm"; for every k_work >= 0, 0 included, at
\* most k_work entries are working-sourced.
C11_QueryAllTakesMostRecent ==
    op.kind = "query_all"
    => LET n == Min(op.k_work, Len(scratchpad))
       IN  /\ ret.exc = "none"
           /\ FromSource(ret.val, "working") = 1..n
           /\ \A j \in 1..n :
                ret.val[j].entry = scratchpad[Len(scratchpad) - n + j]
           /\ FromSource(ret.val, "longterm") = (n + 1)..Len(ret.val)
           /\ Len(ret.val) - n <= op.k_long
           /\ Cardinality(FromSource(ret.val, "working")) <= op.k_work

\* C12: when the embedder or the vector store fails, query_all does not
\* raise; every element of its result is tagged "working" or "longterm", none
\* is tagged "longterm", and the elements are the Working entries query_all
\* selects: the last entries of Working in order, min(k_work, len(Working))
\* of them for k_work > 0.
C12_QueryAllSurvivesOutage ==
    (op.kind = "query_all" /\ op.failed)
    => /\ ret.exc = "none" /\ ~ret.isNone
       /\ \A j \in 1..Len(ret.val) : ret.val[j].source \in {"working", "longterm"}
       /\ FromSource(ret.val, "longterm") = {}
       /\ Len(ret.val) <= Len(scratchpad)
       /\ \A j \in 1..Len(ret.val) :
            ret.val[j].entry = scratchpad[Len(scratchpad) - Len(ret.val) + j]
       /\ op.k_work > 0 => Len(ret.val) = Min(op.k_work, Len(scratchpad))

\* C12 witness: a failed Long-Term query while Working holds more entries
\* than k_work and the store holds records.
C12_Witness ==
    /\ op.kind = "query_all" /\ op.failed
    /\ op.k_work > 0 /\ Len(scratchpad) > op.k_work
    /\ Len(ret.val) = op.k_work
    /\ StoreCount(LT) > 0

\* C13: Digestor.query never raises; it returns an empty sequence when the
\* embedder or the adapter's search raises and otherwise what the adapter's
\* search returned for k; it changes neither the store nor _seen_hashes.
C13_QueryNeverRaises ==
    [][op'.kind = "query"
       => LET found == StoreSearch(LT, ranked["e1"], op'.k)
          IN  /\ ret'.exc = "none" /\ ~ret'.isNone
              /\ (op'.down \/ found.exc # "none") => ret'.val = <<>>
              /\ (~op'.down /\ found.exc = "none") => ret'.val = found.val
              /\ engines' = engines]_vars

\* C13 witness: a query whose embedder or backend failed, on a store that
\* holds records, returned the empty sequence.
C13_Witness ==
    /\ op.kind = "query" /\ op.down
    /\ StoreCount(LT) > 0
    /\ ret.exc = "none" /\ ret.val = <<>>

(***************************************************************************)
(* Batches: ingest_documents with a list of two documents.                 *)
(***************************************************************************)
\* The batches: a document for path "p" followed by one for path "q", both
\* with content.
BatchLists ==
    {<<d1, d2>> : d1 \in {d \in Docs : d.path = "p" /\ d.content # <<>>},
                  d2 \in {d \in Docs : d.path = "q" /\ d.content # <<>>}}

\* Document i of the batch reaches the chunker, and its processing fails: an
\* embedding raises or the backend is unavailable for the write.
FailsAt(d, docs, force, faults, io, i) ==
    /\ docs[i].content # <<>>
    /\ ~SkipSeen(d, HashContent(docs[i].content), force)
    /\ (faults[i] # {} \/ io)

DigestorIngestBatch ==
    \E source \in Sources, docs \in BatchLists, force \in BOOLEAN,
       io \in BOOLEAN, dbg \in BOOLEAN :
      \E faults \in FaultsOf(docs) :
        LET r == CallIngestDocuments(engines["e1"], <<source, docs>>, force,
                                     faults, io, dbg)
        IN  /\ Len(r.d.metadata) <= MaxStore + 1
            /\ engines' = [engines EXCEPT !["e1"] = r.d]
            /\ op' = [kind |-> "ingest_batch", docs |-> docs,
                      firstFailed |-> FailsAt(engines["e1"], docs, force, faults, io, 1),
                      secondClean |-> docs[2].content # docs[1].content
                                      /\ faults[2] = {} /\ ~io
                                      /\ ~SkipSeen(engines["e1"],
                                                   HashContent(docs[2].content), force)]
            /\ ret' = Outcome(r.exc, TRUE, "None")
            /\ OtherUnchanged

\* Digestor.ingest_chunks(chunks, metadatas) with the chunks and metadatas of
\* one document; added: what the call hands to self.store.add.
DigestorIngestChunks ==
    \E source \in Sources, doc \in {d \in Docs : d.content # <<>>}, io \in BOOLEAN :
      LET chunks == chunk_text(doc.content, ChunkSize, ChunkOverlap).val
          metadatas == ChunkMetadatas(source, doc.path, Len(chunks),
                                      HashContent(doc.content))
      IN  \E fails \in SUBSET (1..Len(chunks)) :
            LET r == IngestChunks(engines["e1"], chunks, metadatas, fails, io)
            IN  /\ Len(r.d.metadata) <= MaxStore + 1
                /\ engines' = [engines EXCEPT !["e1"] = r.d]
                /\ op' = [kind |-> "ingest_chunks", chunks |-> chunks,
                          metadatas |-> metadatas, fails |-> fails,
                          added |-> AddArguments(chunks, metadatas, fails)]
                /\ ret' = Outcome(r.exc, TRUE, "None")
                /\ OtherUnchanged

NextBatch == DigestorIngestBatch

SpecBatch == InitDigestor /\ [][NextBatch]_vars

NextChunks == DigestorIngestChunks

SpecChunks == InitDigestor /\ [][NextChunks]_vars

\* C14: a failure while processing one document of a batch does not abort
\* the batch: the call does not raise, and a later document whose own
\* processing meets no failure is ingested (its hash is seen and the store
\* holds records of its path with its hash).
C14_BatchSurvivesFailure ==
    (op.kind = "ingest_batch" /\ op.firstFailed)
    => /\ ret.exc = "none"
       /\ op.secondClean
          => /\ HashContent(op.docs[2].content) \in LT.seen
             /\ \E i \in 1..Len(LT.metadata) :
                  /\ LT.metadata[i].path = op.docs[2].path
                  /\ LT.metadata[i].content_hash = HashContent(op.docs[2].content)

\* C15: when some but not all chunk embeddings of an ingest_chunks call fail,
\* the call passes to the adapter's add as many vectors as metadatas, the
\* j-th vector being the embedding of the j-th surviving chunk and the j-th
\* metadata being that chunk's metadata.
C15_SurvivorsKeepTheirMetadata ==
    (/\ op.kind = "ingest_chunks"
     /\ op.fails # {}
     /\ op.fails # 1..Len(op.chunks))
    => LET ok == (1..Len(op.chunks)) \ op.fails
       IN  /\ Len(op.added.embeddings) = Cardinality(ok)
           /\ Len(op.added.metadatas) = Len(op.added.embeddings)
           /\ \A j \in 1..Cardinality(ok) :
                /\ op.added.embeddings[j] = Embed(Pick(op.chunks, ok)[j])
                /\ op.added.metadatas[j] = Pick(op.metadatas, ok)[j]

(***************************************************************************)
(* Deleting documents through the registry: delete_documents and           *)
(* delete_group_documents.                                                 *)
(***************************************************************************)
\* d.delete_documents(filters): class Digestor defines no delete_documents
\* (its method is delete_by_metadata), so the attribute lookup raises.
DigestorDeleteDocuments(d, filters) == [d |-> d, exc |-> "AttributeError", val |-> 0]

\* delete_documents(instance_id, filters): except KeyError re-raises, any
\* other exception passes through.
DeleteDocuments(inst, engs, id, filters) ==
    IF inst[id] = NoEngine THEN [engines |-> engs, exc |-> "KeyError", val |-> 0]
    ELSE LET r == DigestorDeleteDocuments(engs[inst[id]], filters)
         IN  [engines |-> [engs EXCEPT ![inst[id]] = r.d], exc |-> r.exc, val |-> r.val]

RECURSIVE DeleteEach(_, _, _, _, _)
DeleteEach(engs, list, filters, i, total) ==
    IF i > Len(list) THEN [engines |-> engs, exc |-> "none", val |-> total]
    ELSE LET r == DigestorDeleteDocuments(engs[list[i]], filters)
         IN  IF r.exc # "none" THEN [engines |-> engs, exc |-> r.exc, val |-> 0]
             ELSE DeleteEach([engs EXCEPT ![list[i]] = r.d], list, filters,
                             i + 1, total + r.val)

\* delete_group_documents(group_id, filters)
DeleteGroupDocuments(inst, grps, engs, gid, filters) ==
    LET got == GetGroup(inst, grps, gid)
    IN  IF got.exc # "none" THEN [engines |-> engs, exc |-> got.exc, val |-> 0]
        ELSE DeleteEach(engs, got.val, filters, 1, 0)

\* The number of records of engine state d that match the filters.
Matching(d, filters) ==
    Cardinality({i \in 1..Len(d.metadata) : Matches(d.metadata[i], filters)})

RECURSIVE SumMatching(_, _, _)
SumMatching(engs, names, filters) ==
    IF names = {} THEN 0
    ELSE LET e == CHOOSE x \in names : TRUE
         IN  Matching(engs[e], filters) + SumMatching(engs, names \ {e}, filters)

ManagerDeleteDocuments ==
    \E id \in Ids, filters \in Filters :
        LET r == DeleteDocuments(instances, engines, id, filters)
        IN  /\ engines' = r.engines
            /\ op' = [kind |-> "delete_documents", id |-> id, filters |-> filters,
                      known |-> instances[id] # NoEngine,
                      matching |-> IF instances[id] = NoEngine THEN 0
                                   ELSE Matching(engines[instances[id]], filters)]
            /\ ret' = Outcome(r.exc, r.exc # "none", r.val)
            /\ UNCHANGED <<instances, groups>> /\ RegistryOnly

ManagerDeleteGroupDocuments ==
    \E gid \in GroupIds, filters \in Filters :
        LET r == DeleteGroupDocuments(instances, groups, engines, gid, filters)
        IN  /\ engines' = r.engines
            /\ op' = [kind |-> "delete_group_documents", id |-> gid,
                      filters |-> filters,
                      known |-> groups[gid].defined,
                      matching |-> SumMatching(engines,
                                      {instances[m] : m \in Range(groups[gid].members)},
                                      filters)]
            /\ ret' = Outcome(r.exc, r.exc # "none", r.val)
            /\ UNCHANGED <<instances, groups>> /\ RegistryOnly

NextDocs ==
    \/ ManagerDeleteDocuments
    \/ ManagerDeleteGroupDocuments

SpecDocs == InitQuery /\ [][NextDocs]_vars

\* C16: delete_documents(id, filters) returns the number of records the named
\* engine held for the filters, delete_group_documents the sum over the member
\* engines; afterwards no store concerned holds a record matching the filters;
\* an unknown id or group fails with NotFound (KeyError).
C16_DeleteDocumentsCounts ==
    /\ op.kind = "delete_documents"
       => IF op.known
          THEN /\ ret.exc = "none" /\ ~ret.isNone
               /\ ret.val = op.matching
               /\ Matching(engines[instances[op.id]], op.filters) = 0
          ELSE ret.exc = "KeyError"
    /\ op.kind = "delete_group_documents"
       => IF op.known
          THEN /\ ret.exc = "none" /\ ~ret.isNone
               /\ ret.val = op.matching
               /\ \A m \in Range(groups[op.id].members) :
                    Matching(engines[instances[m]], op.filters) = 0
          ELSE ret.exc = "KeyError"

(***************************************************************************)
(* Claims about the registry's error handling (SpecManager).  Each is a    *)
(* property of the steps: unprimed variables are the state before the      *)
(* call, primed ones the state after it.                                   *)
(***************************************************************************)
\* Some id of the list is not registered.
HasUnknown(inst, ids) == \E i \in 1..Len(ids) : inst[ids[i]] = NoEngine

\* C17: create_group(group_id, ids) fails with AlreadyExists (ValueError) if
\* the group exists and with NotFound (KeyError) if a listed id is not
\* registered, leaving instances and groups as they were; on success the
\* group lists exactly the given ids in the given order.
C17_CreateGroupAllOrNothing ==
    [][op'.kind = "create_group"
       => /\ instances' = instances
          /\ IF groups[op'.id].defined
             THEN ret'.exc = "ValueError" /\ groups' = groups
             ELSE IF HasUnknown(instances, op'.ids)
             THEN ret'.exc = "KeyError" /\ groups' = groups
             ELSE /\ ret'.exc = "none"
                  /\ groups' = [groups EXCEPT
                                  ![op'.id] = [defined |-> TRUE, members |-> op'.ids]]]_vars

\* C17 witness: create_group failed with NotFound for a list naming a
\* registered id before an unregistered one, and the group does not exist.
C17_Witness ==
    /\ op.kind = "create_group" /\ ret.exc = "KeyError"
    /\ Len(op.ids) = 2
    /\ instances[op.ids[1]] # NoEngine /\ instances[op.ids[2]] = NoEngine
    /\ ~groups[op.id].defined

\* C18: register_instance with a taken id fails with AlreadyExists
\* (ValueError) and changes no binding and no group; and the binding of an id
\* changes only to the engine of a successful register_instance or
\* update_instance for that id, or to none by delete_instance or clear_all.
C18_OneEnginePerId ==
    [][/\ (op'.kind = "register_instance" /\ instances[op'.id] # NoEngine)
          => (ret'.exc = "ValueError" /\ instances' = instances /\ groups' = groups)
       /\ \A i \in Ids :
            instances'[i] # instances[i]
            => \/ /\ op'.kind \in {"register_instance", "update_instance"}
                  /\ op'.id = i /\ ret'.exc = "none"
                  /\ instances'[i] = op'.engine
               \/ /\ op'.kind = "delete_instance" /\ op'.id = i
                  /\ instances'[i] = NoEngine
               \/ /\ op'.kind = "clear_all"
                  /\ instances'[i] = NoEngine]_vars

\* C18 witness: register_instance failed for an id bound to the other engine
\* while a group lists the id.
C18_Witness ==
    /\ op.kind = "register_instance" /\ ret.exc = "ValueError"
    /\ instances[op.id] # NoEngine /\ instances[op.id] # op.engine
    /\ \E g \in GroupIds : groups[g].defined /\ op.id \in Range(groups[g].members)

\* C19: delete_instance(id) on a registered id ends with id not registered,
\* although the store's clear raises; on an id that is not registered it
\* fails with NotFound (KeyError) and changes neither instances nor groups.
C19_DeleteInstanceUnregisters ==
    [][op'.kind = "delete_instance"
       => IF instances[op'.id] # NoEngine
          THEN ret'.exc = "none" /\ instances'[op'.id] = NoEngine
          ELSE /\ ret'.exc = "KeyError"
               /\ instances' = instances /\ groups' = groups]_vars

\* C19 witness: delete_instance returned for an id whose store's clear
\* raised (the store still holds its records); the id is not registered.
C19_Witness ==
    /\ op.kind = "delete_instance" /\ ret.exc = "none"
    /\ instances[op.id] = NoEngine
    /\ \E e \in Engines : StoreClear(engines[e]).exc # "none" /\ StoreCount(engines[e]) > 0

(***************************************************************************)
(* query_group while a member engine fails (SpecOutage): the whole merge   *)
(* is asked for (top_k not given); the call records which engines failed.  *)
(***************************************************************************)
ManagerQueryGroupOutage ==
    \E gid \in GroupIds, k \in {1, DefaultK}, down \in {{}} \cup {{e} : e \in Engines} :
        LET r == QueryGroup(instances, groups, engines, ranked, gid, k, NoTopK, down)
        IN  /\ op' = [kind |-> "query_group", id |-> gid, top_k |-> NoTopK,
                      all |-> r.all, k |-> k, down |-> down]
            /\ ret' = Outcome(r.exc, r.exc # "none", r.val)
            /\ UNCHANGED <<engines, instances, groups, scratchpad, nextId, hist, ranked, tasks, threads, jsonl>>

NextOutage == ManagerQueryGroupOutage

SpecOutage == InitQuery /\ [][NextOutage]_vars

\* C20: when a member engine's query fails during query_group on an
\* existing group, the call does not raise and returns the sorted merge of
\* the results of the other members: every result of every member whose
\* engine works is merged, none of a failing member is.
C20_FailedMemberContributesNothing ==
    (op.kind = "query_group" /\ groups[op.id].defined /\ op.down # {})
    => LET members == groups[op.id].members
       IN  /\ ret.exc = "none" /\ ~ret.isNone
           /\ ret.val = SortByScoreDesc(op.all)
           /\ \A x \in Range(op.all) : instances[members[x.obj[1]]] \notin op.down
           /\ \A i \in 1..Len(members) :
                instances[members[i]] \notin op.down
                => LET res == Query(engines[instances[members[i]]],
                                    ranked[instances[members[i]]], op.k, FALSE)
                   IN  \A j \in 1..Len(res) :
                         [meta |-> res[j].meta, score |-> res[j].score,
                          obj |-> <<i, j>>] \in Range(ret.val)

\* C20 witness: the first member's engine failed, and the results of a later
\* member were returned.
C20_Witness ==
    /\ op.kind = "query_group" /\ ret.exc = "none"
    /\ Len(groups[op.id].members) = 2
    /\ instances[groups[op.id].members[1]] \in op.down
    /\ instances[groups[op.id].members[2]] \notin op.down
    /\ ret.val # <<>>

(***************************************************************************)
(* memory_layers.MemoryLayers: the periodic promotion task.                *)
(* tasks.periodic_task is self._periodic_task (0 for None, else the id of  *)
(* the task object), tasks.running the tasks the event loop is running.    *)
(* _run_periodic_flush loops forever and nothing cancels a task, so a task *)
(* never leaves tasks.running.                                             *)
(***************************************************************************)
MaxTasks == 2

\* MemoryLayers._start_periodic_flush(interval).  loop: asyncio.get_event_loop()
\* gives a loop (otherwise it raises RuntimeError, which is logged).
StartPeriodicFlush(t, loop) ==
    LET task == Cardinality(t.running) + 1
    IN  IF loop
        THEN [periodic_task |-> task, running |-> t.running \cup {task}]
        ELSE t

LayersStartPeriodicFlush ==
    \E loop \in BOOLEAN :
        /\ Cardinality(tasks.running) < MaxTasks
        /\ tasks' = StartPeriodicFlush(tasks, loop)
        /\ op' = [kind |-> "start_periodic_flush", loop |-> loop]
        /\ ret' = None
        /\ UNCHANGED <<engines, instances, groups, scratchpad, nextId, hist,
                       ranked, threads, jsonl>>

\* One round of _run_periodic_flush in a running task: the sleep is over and
\* self.shortterm.flush() is called with the given collaborators' behaviour.
PeriodicFlushWith(sum, faults, io, dbg) ==
    LET f == Flush(scratchpad, engines["e1"], sum, faults, io, dbg)
    IN  /\ tasks.running # {}
        /\ scratchpad' = f.scratch
        /\ engines' = [engines EXCEPT !["e1"] = f.lt]
        /\ op' = FlushOp("periodic_flush", scratchpad, f, sum, faults, io)
        /\ ret' = None
        /\ hist' = [hist EXCEPT !.pure = FALSE,
                      !.flushes = @ + (IF f.promoted THEN 1 ELSE 0)]
        /\ UNCHANGED <<instances, groups, nextId, ranked, tasks, threads, jsonl>>

LayersRunPeriodicFlush ==
    \E sum \in SumOutcomes, io \in BOOLEAN, dbg \in BOOLEAN :
      \E faults \in SummaryFaults(sum) :
        PeriodicFlushWith(sum, faults, io, dbg)

\* A round in which the summarizer returns a text and neither the embedder
\* nor the store fails.
SucceedingPeriodicFlush ==
    \E sum \in SumOutcomes, dbg \in BOOLEAN :
        /\ ~sum.raises
        /\ sum.text # <<>>
        /\ PeriodicFlushWith(sum, <<{}>>, FALSE, dbg)

NextPeriodic ==
    \/ LayersStartPeriodicFlush
    \/ LayersRunPeriodicFlush
    \/ LayersCommitTurn

SpecPeriodic == InitLayers /\ [][NextPeriodic]_vars

\* The event loop wakes a running task after every sleep, and the summarizer
\* and the store succeed again and again.
FairPeriodic == SpecPeriodic /\ SF_vars(SucceedingPeriodicFlush)

\* C21: a MemoryLayers instance has at most one running periodic promotion
\* task at any time, however often _start_periodic_flush is called.
C21_AtMostOneTask == Cardinality(tasks.running) <= 1

\* C22: while a periodic task runs and the summarizer and the store keep
\* succeeding, content sitting in Working is eventually promoted: Working
\* eventually becomes empty, even without further commit_turn calls.
C22_WorkingEventuallyPromoted ==
    (tasks.running # {} /\ scratchpad # <<>>) ~> (scratchpad = <<>>)

(***************************************************************************)
(* Concurrent callers.  threads.at[t] is the position of caller t: idle,   *)
(* or inside the given call (with its argument and the locals it read);    *)
(* threads.locks gives each lock's owner ("free" when nobody holds it).    *)
(***************************************************************************)
Callers == {"t1", "t2"}
Idle == [pc |-> "idle", call |-> "none", arg |-> "none", local |-> <<>>]
At(t) == threads.at[t]
Goto(t, pos) == [threads.at EXCEPT ![t] = pos]

(***************************************************************************)
(* SpecLocks: DigestorManager's operations that reach an engine, called by *)
(* two threads.  A thread is at "locked" inside `with self._lock:` before  *)
(* the engine is called, and at "engine" while the engine's method runs.   *)
(***************************************************************************)
\* The operations whose body is inside `with self._lock:`
LockedCalls == {"delete_instance", "clear_all", "delete_documents",
                "delete_group_documents"}
\* The operations that take the lock only inside get_group
UnlockedCalls == {"clear_group", "query_group"}
ArgsOf(call) ==
    IF call \in {"delete_instance", "delete_documents"} THEN Ids
    ELSE IF call = "clear_all" THEN {"none"}
    ELSE GroupIds

InitLocks ==
    /\ engines = [e \in Engines |->
                    Seeded(IF e = "e1" THEN "faiss" ELSE "chroma", <<1>>)]
    /\ \E s1 \in ScoreLists(Len(Seeded("faiss", <<1>>).metadata)),
          s2 \in ScoreLists(Len(Seeded("chroma", <<1>>).metadata)) :
         ranked = [e \in Engines |-> IF e = "e1" THEN s1 ELSE s2]
    /\ instances = [i \in Ids |-> IF i = "a" THEN "e1" ELSE "e2"]
    /\ \E ids \in IdLists :
         groups = [g \in GroupIds |->
                     IF g = "g" THEN [defined |-> TRUE, members |-> ids] ELSE NoGroup]
    /\ scratchpad = <<>>
    /\ nextId = 1
    /\ op = [kind |-> "init"]
    /\ ret = None
    /\ hist = [commits |-> 0, flushes |-> 0, pure |-> TRUE]
    /\ tasks = NoTasks
    /\ jsonl = <<>>
    /\ threads = [at |-> [t \in Callers |-> Idle], locks |-> [registry |-> "free"]]

LocksFrame == UNCHANGED <<scratchpad, nextId, hist, ranked, tasks, jsonl>>

\* `with self._lock:` of a locked operation: the caller waits until the lock
\* is free, then owns it.
LocksAcquire(t) ==
    \E call \in LockedCalls :
      \E arg \in ArgsOf(call) :
        /\ At(t).pc = "idle"
        /\ threads.locks.registry = "free"
        /\ threads' = [at |-> Goto(t, [pc |-> "locked", call |-> call, arg |-> arg,
                                        local |-> <<>>]),
                       locks |-> [registry |-> t]]
        /\ UNCHANGED <<engines, instances, groups, op, ret>>
        /\ LocksFrame

\* Whether the locked operation at t gets as far as calling an engine:
\* delete_instance calls digestor.clear() for a registered id, clear_all calls
\* inst.clear() for every registered instance; delete_documents and
\* delete_group_documents fail on the lookup of d.delete_documents.
ReachesEngine(t) ==
    \/ At(t).call = "delete_instance" /\ instances[At(t).arg] # NoEngine
    \/ At(t).call = "clear_all" /\ \E i \in Ids : instances[i] # NoEngine

\* The locked operation calls digestor.clear() / inst.clear().
LocksCallEngine(t) ==
    /\ At(t).pc = "locked"
    /\ ReachesEngine(t)
    /\ threads' = [threads EXCEPT !.at = Goto(t, [At(t) EXCEPT !.pc = "engine"])]
    /\ UNCHANGED <<engines, instances, groups, op, ret>>
    /\ LocksFrame

\* The result of the locked operation at t.
LockedResult(t) ==
    LET call == At(t).call
        arg == At(t).arg
        same == [instances |-> instances, groups |-> groups]
    IN  IF call = "delete_instance"
        THEN DeleteInstance(instances, groups, engines, arg)
        ELSE IF call = "clear_all"
        THEN ClearAll(instances, groups, engines)
        ELSE IF call = "delete_documents"
        THEN same @@ DeleteDocuments(instances, engines, arg, [path |-> "p"])
        ELSE same @@ DeleteGroupDocuments(instances, groups, engines, arg,
                                          [path |-> "p"])

\* The locked operation ends (normally or by an exception): the registry is
\* updated and the `with` block releases the lock.
LocksRelease(t) ==
    LET r == LockedResult(t)
    IN  /\ \/ At(t).pc = "engine" /\ threads.locks.registry = t
           \/ At(t).pc = "locked" /\ ~ReachesEngine(t)
        /\ instances' = r.instances
        /\ groups' = r.groups
        /\ engines' = r.engines
        /\ op' = [kind |-> At(t).call, id |-> At(t).arg, by |-> t]
        /\ ret' = Outcome(r.exc, TRUE, "None")
        /\ threads' = [at |-> Goto(t, Idle), locks |-> [registry |-> "free"]]
        /\ LocksFrame

\* clear_group / query_group: get_group takes and releases the lock, then
\* the engines it returned are called without the lock.
LocksGetGroup(t) ==
    \E call \in UnlockedCalls, gid \in GroupIds :
        LET got == GetGroup(instances, groups, gid)
        IN  /\ At(t).pc = "idle"
            /\ threads.locks.registry = "free"
            /\ IF got.exc # "none"
               THEN /\ op' = [kind |-> call, id |-> gid, by |-> t]
                    /\ ret' = Outcome(got.exc, TRUE, "None")
                    /\ UNCHANGED threads
               ELSE /\ threads' = [threads EXCEPT !.at =
                                     Goto(t, [pc |-> "engine", call |-> call,
                                              arg |-> gid, local |-> got.val])]
                    /\ UNCHANGED <<op, ret>>
            /\ UNCHANGED <<engines, instances, groups>>
            /\ LocksFrame

\* The engines' methods return to clear_group / query_group.
LocksUnlockedReturn(t) ==
    \E down \in {{}} \cup {{e} : e \in Engines} :
        LET all_results == ExtendAll(At(t).local, engines, ranked, DefaultK, down, 1)
        IN  /\ At(t).pc = "engine"
            /\ At(t).call \in UnlockedCalls
            /\ IF At(t).call = "clear_group"
               THEN /\ engines' = ClearEach(engines, At(t).local, 1)
                    /\ ret' = None
               ELSE /\ UNCHANGED engines
                    /\ ret' = Outcome("none", FALSE,
                                      TakeTopK(SortByScoreDesc(all_results), NoTopK))
            /\ op' = [kind |-> At(t).call, id |-> At(t).arg, by |-> t]
            /\ threads' = [threads EXCEPT !.at = Goto(t, Idle)]
            /\ UNCHANGED <<instances, groups>>
            /\ LocksFrame

NextLocks ==
    \E t \in Callers :
        \/ LocksAcquire(t)
        \/ LocksCallEngine(t)
        \/ LocksRelease(t)
        \/ LocksGetGroup(t)
        \/ LocksUnlockedReturn(t)

SpecLocks == InitLocks /\ [][NextLocks]_vars

\* C23: no caller is inside an engine's method (clear, delete, query) while
\* it owns the registry lock.
C23_NoEngineCallUnderLock ==
    \A t \in Callers : At(t).pc = "engine" => threads.locks.registry # t

(***************************************************************************)
(* SpecChunker: utils.chunk_text as a function of its arguments.  The      *)
(* text of length L is <<1, ..., L>>, so a character names its position.   *)
(***************************************************************************)
MaxText == 5
MaxSize == 3

Texts == {[i \in 1..n |-> i] : n \in 0..MaxText}
ChunkArgs == [text : Texts, size : -1..MaxSize, overlap : -1..MaxSize]

InitChunker ==
    /\ engines = [e \in Engines |-> EmptyEngine("faiss")]
    /\ instances = [i \in Ids |-> NoEngine]
    /\ groups = [g \in GroupIds |-> NoGroup]
    /\ scratchpad = <<>>
    /\ nextId = 1
    /\ \E a \in ChunkArgs :
         op = [kind |-> "arguments", text |-> a.text, size |-> a.size,
               overlap |-> a.overlap]
    /\ ret = None
    /\ hist = [commits |-> 0, flushes |-> 0, pure |-> TRUE]
    /\ NoRanking
    /\ tasks = NoTasks
    /\ jsonl = <<>>
    /\ threads = NoThreads

\* chunk_text(text, chunk_size, chunk_overlap)
ChunkerChunkText ==
    LET r == chunk_text(op.text, op.size, op.overlap)
    IN  /\ op.kind = "arguments"
        /\ op' = [op EXCEPT !.kind = "chunk_text"]
        /\ ret' = Outcome(r.exc, FALSE, r.val)
        /\ UNCHANGED <<engines, instances, groups, scratchpad, nextId, hist,
                       ranked, tasks, threads, jsonl>>

NextChunker == ChunkerChunkText

SpecChunker == InitChunker /\ [][NextChunker]_vars

ValidChunkArgs == op.size > 0 /\ 0 <= op.overlap /\ op.overlap < op.size

\* C24: for a text of length L, size > 0 and 0 <= overlap < size, chunk_text
\* returns ceil(L / (size - overlap)) chunks, the i-th (from 0) being
\* text[i*(size-overlap) : i*(size-overlap)+size]; every chunk has between 1
\* and size characters, every character of the text is in some chunk, and
\* empty text gives no chunk.
C24_ChunkTextWindows ==
    (op.kind = "chunk_text" /\ ValidChunkArgs) =>
        LET L == Len(op.text)
            step == op.size - op.overlap
            n == (L + step - 1) \div step
            chunks == ret.val
        IN  /\ ret.exc = "none"
            /\ Len(chunks) = n
            /\ \A i \in 0..(n - 1) :
                 /\ chunks[i + 1] =
                      SubSeq(op.text, i * step + 1, Min(i * step + op.size, L))
                 /\ Len(chunks[i + 1]) \in 1..op.size
            /\ \A p \in 1..L :
                 \E i \in 1..Len(chunks) :
                   \E j \in 1..Len(chunks[i]) : chunks[i][j] = op.text[p]
            /\ (L = 0 => chunks = <<>>)

C24_Witness ==
    /\ op.kind = "chunk_text"
    /\ ValidChunkArgs
    /\ op.overlap > 0
    /\ Len(ret.val) > 2
    /\ Len(ret.val[Len(ret.val)]) < op.size

\* C25: chunk_text raises ValueError, returning no chunk, exactly when
\* size <= 0 or overlap < 0 or overlap >= size, whatever the text (the empty
\* text included).
C25_ChunkTextRejects ==
    op.kind = "chunk_text" =>
        /\ (ret.exc = "ValueError" <=> ~ValidChunkArgs)
        /\ (ret.exc = "ValueError" => ret.val = <<>>)
        /\ ret.exc \in {"none", "ValueError"}

C25_Witness ==
    /\ op.kind = "chunk_text"
    /\ op.text = <<>>
    /\ op.size > 0
    /\ op.overlap >= op.size
    /\ ret.exc = "ValueError"

(***************************************************************************)
(* Further claims about ShortTermMemory.flush (SpecLayers).                *)
(***************************************************************************)
\* C26: flush() called while Working holds fewer than threshold entries
\* returns None, does not call the summarizer, and leaves Working and the
\* Long-Term store as they are.
C26_FlushBelowThresholdIsNoOp ==
    [][(op'.kind = "flush" /\ op'.n < Threshold)
       => /\ ret' = None
          /\ ~op'.called
          /\ scratchpad' = scratchpad
          /\ engines' = engines]_vars

\* C26 witness: a flush of a non-empty Working tier below the threshold.
C26_Witness ==
    /\ op.kind = "flush"
    /\ op.n > 0
    /\ op.n < Threshold
    /\ ~op.called
    /\ Len(scratchpad) = op.n

\* C28: flush() clears Working only if the Long-Term store gained a record
\* during that flush; when the summarizer returns empty text Working keeps
\* all its entries.
C28_FlushClearsOnlyAfterStoring ==
    [][op'.kind = "flush"
       => /\ (scratchpad' # scratchpad
              => StoreCount(engines'["e1"]) > StoreCount(engines["e1"]))
          /\ ((op'.called /\ ~op'.sumRaises /\ op'.summary = <<>>)
              => scratchpad' = scratchpad)]_vars

\* C28 witness: a flush at the threshold whose summarizer returned empty
\* text; Working still holds its entries.
C28_Witness ==
    /\ op.kind = "flush"
    /\ op.n >= Threshold
    /\ op.called
    /\ ~op.sumRaises
    /\ op.summary = <<>>
    /\ Len(scratchpad) = op.n

(***************************************************************************)
(* SpecTurns: commit_turn and flush() called by two threads on one         *)
(* MemoryLayers.  WorkingMemory.add / list / clear are atomic (each runs   *)
(* under the Working tier's lock); flush() holds ShortTermMemory._lock     *)
(* from its first line to its return, which keeps other flushes out but    *)
(* not other adds.  A thread is at "added" between working.add and         *)
(* shortterm.flush, and at "listed" after flush read the buffer (local).   *)
(* hist.added: the ids given to working.add; hist.summarized: the ids of   *)
(* the entries whose text a flush summarized and ingested; hist.twice: the *)
(* ids among them that a later flush summarized and ingested again.        *)
(***************************************************************************)
EntryIds(entries) == {entries[i].id : i \in 1..Len(entries)}

\* (mutant of RLockAcquirable: the lock keeps nobody out)
RLockAlwaysAcquirable(owner, t) == TRUE

\* `with self._lock:` on a threading.RLock: thread t gets the lock when it is
\* free or t already owns it.
RLockAcquirable(owner, t) == owner \in {"free", t}

InitTurns ==
    /\ \E k \in StoreKinds :
         engines = [e \in Engines |-> EmptyEngine(IF e = "e1" THEN k ELSE "faiss")]
    /\ instances = [i \in Ids |-> NoEngine]
    /\ groups = [g \in GroupIds |-> NoGroup]
    /\ scratchpad = <<>>
    /\ nextId = 1
    /\ op = [kind |-> "init"]
    /\ ret = None
    /\ hist = [commits |-> 0, flushes |-> 0, pure |-> FALSE,
               added |-> {}, summarized |-> {}, twice |-> {}]
    /\ NoRanking
    /\ tasks = NoTasks
    /\ jsonl = <<>>
    /\ threads = [at |-> [t \in Callers |-> Idle], locks |-> [shortterm |-> "free"]]

TurnsFrame == UNCHANGED <<instances, groups, ranked, tasks, jsonl>>

\* commit_turn(entry), first statement: self.working.add(entry)
TurnsAdd(t) ==
    \E content \in EntryContents :
        LET entry == [id |-> nextId, content |-> content]
        IN  /\ At(t).pc = "idle"
            /\ nextId <= MaxEntries
            /\ scratchpad' = AddScratch(scratchpad, entry)
            /\ nextId' = nextId + 1
            /\ hist' = [hist EXCEPT !.commits = @ + 1, !.added = @ \cup {entry.id}]
            /\ threads' = [threads EXCEPT !.at =
                             Goto(t, [pc |-> "added", call |-> "commit_turn",
                                      arg |-> entry.id, local |-> <<>>])]
            /\ UNCHANGED <<engines, op, ret>>
            /\ TurnsFrame

\* flush(), called by commit_turn or on its own (the periodic task, a
\* caller): `with self._lock:`, entries = self._working.list(), and the
\* return of None below the threshold.
TurnsFlushList(t) ==
    LET entries == GetScratch(scratchpad)
        call == IF At(t).pc = "added" THEN "commit_turn" ELSE "flush"
    IN  /\ At(t).pc \in {"idle", "added"}
        /\ RLockAcquirable(threads.locks.shortterm, t)
        /\ IF Len(entries) < Threshold
           THEN /\ threads' = [threads EXCEPT !.at = Goto(t, Idle)]
                /\ op' = [kind |-> call, by |-> t, n |-> Len(entries),
                          cleared |-> FALSE, after |-> Len(entries)]
                /\ ret' = None
           ELSE /\ threads' = [at |-> Goto(t, [pc |-> "listed", call |-> call,
                                               arg |-> At(t).arg, local |-> entries]),
                               locks |-> [shortterm |-> t]]
                /\ UNCHANGED <<op, ret>>
        /\ UNCHANGED <<engines, scratchpad, nextId, hist>>
        /\ TurnsFrame

\* The rest of flush(): the summarizer, ingest_documents, and, when neither
\* raised, self._working.clear(); the lock is released on return.
TurnsFlushFinish(t) ==
    \E sum \in SumOutcomes, io \in BOOLEAN, dbg \in BOOLEAN :
      \E faults \in SummaryFaults(sum) :
        LET f == Flush(At(t).local, engines["e1"], sum, faults, io, dbg)
        IN  /\ At(t).pc = "listed"
            /\ engines' = [engines EXCEPT !["e1"] = f.lt]
            /\ scratchpad' = IF f.promoted THEN WorkingClear(scratchpad)
                             ELSE scratchpad
            /\ hist' = [hist EXCEPT
                          !.flushes = @ + (IF f.promoted THEN 1 ELSE 0),
                          !.summarized = IF f.promoted
                                         THEN @ \cup EntryIds(At(t).local) ELSE @,
                          !.twice = IF f.promoted
                                    THEN @ \cup (hist.summarized
                                                 \cap EntryIds(At(t).local))
                                    ELSE @]
            /\ op' = [kind |-> At(t).call, by |-> t, n |-> Len(At(t).local),
                      cleared |-> f.promoted,
                      after |-> IF f.promoted THEN 0 ELSE Len(scratchpad)]
            /\ ret' = IF At(t).call = "flush" THEN f.ret ELSE None
            /\ threads' = [at |-> Goto(t, Idle), locks |-> [shortterm |-> "free"]]
            /\ UNCHANGED nextId
            /\ TurnsFrame

NextTurns ==
    \E t \in Callers :
        \/ TurnsAdd(t)
        \/ TurnsFlushList(t)
        \/ TurnsFlushFinish(t)

SpecTurns == InitTurns /\ [][NextTurns]_vars

\* C27: in every interleaving of commit_turn calls and flushes, an entry
\* given to Working is afterwards always either still in Working or among
\* the entries whose text a flush summarized and ingested.
C27_NoEntryLost ==
    \A id \in hist.added : id \in EntryIds(scratchpad) \/ id \in hist.summarized

\* C27 witness: a flush read op.n entries, another thread's commit_turn added
\* an entry before the flush returned (op.after entries at its return), and
\* the added entry is in Working.
C27_Witness ==
    /\ op.kind \in {"commit_turn", "flush"}
    /\ op.n >= Threshold
    /\ op.after > op.n
    /\ \E t \in Callers :
         /\ t # op.by
         /\ At(t).pc = "added"
         /\ At(t).arg \in EntryIds(scratchpad)

(***************************************************************************)
(* SpecRace: ingest_documents(source, [doc], force=False) called by two    *)
(* threads on one Digestor.  The Digestor has no lock: a thread is at      *)
(* "checked" after it found the document's hash absent from _seen_hashes   *)
(* (line 95) and before it chunked, stored and recorded it (lines 98-109). *)
(* hist.pure: no embedder or backend fault occurred so far.                *)
(***************************************************************************)
InitRace ==
    /\ \E k \in StoreKinds :
         engines = [e \in Engines |-> EmptyEngine(IF e = "e1" THEN k ELSE "faiss")]
    /\ instances = [i \in Ids |-> NoEngine]
    /\ groups = [g \in GroupIds |-> NoGroup]
    /\ scratchpad = <<>>
    /\ nextId = 1
    /\ op = [kind |-> "init"]
    /\ ret = None
    /\ hist = [commits |-> 0, flushes |-> 0, pure |-> TRUE]
    /\ NoRanking
    /\ tasks = NoTasks
    /\ jsonl = <<>>
    /\ threads = [at |-> [t \in Callers |-> Idle], locks |-> <<>>]

RaceFrame == UNCHANGED <<instances, groups, scratchpad, nextId, ranked, tasks, jsonl>>

\* ingest_documents up to the test of line 95: an empty or already seen
\* document is skipped and the call returns; otherwise the thread goes on
\* to ingest it.
RaceCheck(t) ==
    \E doc \in Docs, dbg \in BOOLEAN :
        LET skipped == doc.content = <<>>
                       \/ SkipSeen(engines["e1"], HashContent(doc.content), FALSE)
            r == IngestDocuments(engines["e1"], "src", <<doc>>, FALSE, <<{}>>,
                                 FALSE, dbg)
        IN  /\ At(t).pc = "idle"
            /\ IF skipped
               THEN /\ op' = [kind |-> "ingest_documents", by |-> t, doc |-> doc,
                              skipped |-> TRUE]
                    /\ ret' = Outcome(r.exc, TRUE, "None")
                    /\ UNCHANGED threads
               ELSE /\ threads' = [threads EXCEPT !.at =
                                     Goto(t, [pc |-> "checked",
                                              call |-> "ingest_documents",
                                              arg |-> doc, local |-> <<>>])]
                    /\ UNCHANGED <<op, ret>>
            /\ UNCHANGED <<engines, hist>>
            /\ RaceFrame

\* The rest of ingest_documents for the document that passed the test:
\* chunk, ingest_chunks, self._seen_hashes.add(content_hash), return.
RaceIngest(t) ==
    /\ At(t).pc = "checked"
    /\ \E io \in BOOLEAN :
        \E faults \in FaultsOf(<<At(t).arg>>) :
          LET r == IngestDocuments(engines["e1"], "src", <<At(t).arg>>, TRUE,
                                   faults, io, FALSE)
          IN  /\ Len(r.d.metadata) <= MaxStore
              /\ engines' = [engines EXCEPT !["e1"] = r.d]
              /\ hist' = [hist EXCEPT !.pure = @ /\ ~io /\ faults[1] = {}]
              /\ op' = [kind |-> "ingest_documents", by |-> t, doc |-> At(t).arg,
                        skipped |-> FALSE]
              /\ ret' = Outcome(r.exc, TRUE, "None")
              /\ threads' = [threads EXCEPT !.at = Goto(t, Idle)]
              /\ RaceFrame

NextRace ==
    \E t \in Callers :
        \/ RaceCheck(t)
        \/ RaceIngest(t)

SpecRace == InitRace /\ [][NextRace]_vars

\* The records of engine state d that carry the hash of the content.
RecordsOf(d, content) ==
    {i \in 1..Len(d.metadata) : d.metadata[i].content_hash = HashContent(content)}

\* C29: when threads call ingest_documents concurrently with the same
\* content and force=False (and nothing fails), the content is ingested at
\* most once: the store holds the chunks of a single ingestion.
C29_IngestedAtMostOnce ==
    hist.pure =>
        \A c \in Contents \ {<<>>} :
            Cardinality(RecordsOf(engines["e1"], c)) <= NChunks(c)

(***************************************************************************)
(* SpecMemory: memory_manager.MemoryManager called by two threads.         *)
(* self.lock is a threading.Lock: `with self.lock:` waits until the lock   *)
(* is free, also when the waiting thread is the one that holds it.         *)
(* A thread is at "append" when it holds the lock and has called           *)
(* _append_long_term (from commit_scratch or commit_single_scratch_entry,  *)
(* local = the entry to append), and at "read" when it holds the lock and  *)
(* has called get_long_term (from update_long_term_entry or                *)
(* delete_long_term_entry, local = the entry id).  jsonl is the file, one  *)
(* entry per line.  ret.val names the kind of value returned, op.returned  *)
(* holds the entries returned.                                             *)
(***************************************************************************)
InitMemory ==
    /\ engines = [e \in Engines |-> EmptyEngine("faiss")]
    /\ instances = [i \in Ids |-> NoEngine]
    /\ groups = [g \in GroupIds |-> NoGroup]
    /\ scratchpad = <<>>
    /\ nextId = 1
    /\ op = [kind |-> "init"]
    /\ ret = None
    /\ hist = [commits |-> 0, flushes |-> 0, pure |-> TRUE]
    /\ NoRanking
    /\ tasks = NoTasks
    /\ threads = [at |-> [t \in Callers |-> Idle], locks |-> [manager |-> "free"]]
    /\ jsonl = <<>>

MemoryFrame == UNCHANGED <<engines, instances, groups, hist, ranked, tasks>>

MaxNotes == 3
EntryIdRange == 1..MaxNotes

\* [entry for entry in entries if entry.id != entry_id]
WithoutId(entries, id) == Pick(entries, {i \in 1..Len(entries) : entries[i].id # id})

Holding(t, pc, call, arg, local) ==
    [at |-> Goto(t, [pc |-> pc, call |-> call, arg |-> arg, local |-> local]),
     locks |-> [manager |-> t]]

Released(t) == [at |-> Goto(t, Idle), locks |-> [manager |-> "free"]]

\* add_scratch(entry)
MemoryAddScratch(t) ==
    \E content \in EntryContents :
        /\ At(t).pc = "idle"
        /\ threads.locks.manager = "free"
        /\ nextId <= MaxNotes
        /\ scratchpad' = AddScratch(scratchpad, [id |-> nextId, content |-> content])
        /\ nextId' = nextId + 1
        /\ op' = [kind |-> "add_scratch", by |-> t]
        /\ ret' = None
        /\ UNCHANGED <<threads, jsonl>>
        /\ MemoryFrame

\* delete_scratch_entry(entry_id)
MemoryDeleteScratchEntry(t) ==
    \E id \in EntryIdRange :
        /\ At(t).pc = "idle"
        /\ threads.locks.manager = "free"
        /\ scratchpad' = WithoutId(scratchpad, id)
        /\ op' = [kind |-> "delete_scratch_entry", by |-> t, id |-> id]
        /\ ret' = Outcome("none", FALSE,
                           IF Len(scratchpad') < Len(scratchpad) THEN "True"
                           ELSE "False")
        /\ UNCHANGED <<threads, jsonl, nextId>>
        /\ MemoryFrame

\* commit_scratch() up to its call of self._append_long_term(summary_entry):
\* the lock is taken; an empty scratchpad raises ValueError (and the `with`
\* block releases the lock), otherwise the summary entry is built.
MemoryCommitScratch(t) ==
    LET summary_entry == [id |-> nextId, content |-> Combined(scratchpad),
                          source_entry_ids |-> [i \in 1..Len(scratchpad) |->
                                                   scratchpad[i].id]]
    IN  /\ At(t).pc = "idle"
        /\ threads.locks.manager = "free"
        /\ nextId <= MaxNotes
        /\ IF scratchpad = <<>>
           THEN /\ op' = [kind |-> "commit_scratch", by |-> t]
                /\ ret' = Outcome("ValueError", TRUE, "None")
                /\ UNCHANGED <<threads, nextId>>
           ELSE /\ threads' = Holding(t, "append", "commit_scratch", "none",
                                      <<summary_entry>>)
                /\ nextId' = nextId + 1
                /\ UNCHANGED <<op, ret>>
        /\ UNCHANGED <<scratchpad, jsonl>>
        /\ MemoryFrame

\* commit_single_scratch_entry(entry_id) up to its call of
\* self._append_long_term(entry_to_commit): the entry is taken out of the
\* scratchpad; None is returned when the id is absent.
MemoryCommitSingleScratchEntry(t) ==
    \E id \in EntryIdRange :
        LET found == {i \in 1..Len(scratchpad) : scratchpad[i].id = id}
        IN  /\ At(t).pc = "idle"
            /\ threads.locks.manager = "free"
            /\ scratchpad' = WithoutId(scratchpad, id)
            /\ IF found = {}
               THEN /\ op' = [kind |-> "commit_single_scratch_entry", by |-> t]
                    /\ ret' = None
                    /\ UNCHANGED threads
               ELSE /\ threads' = Holding(t, "append", "commit_single_scratch_entry",
                                          "none",
                                          <<scratchpad[CHOOSE i \in found : TRUE]>>)
                    /\ UNCHANGED <<op, ret>>
            /\ UNCHANGED <<jsonl, nextId>>
            /\ MemoryFrame

\* _append_long_term(entry): `with self.lock:` and the write of one line;
\* called on its own with a new entry, or from the two commit operations,
\* which then finish (commit_scratch clears the scratchpad) and return the
\* entry.
MemoryAppendLongTerm(t) ==
    \E content \in {"x"} :
        LET direct == At(t).pc = "idle"
            entry == IF direct THEN [id |-> nextId, content |-> content]
                     ELSE At(t).local[1]
        IN  /\ At(t).pc \in {"idle", "append"}
            /\ threads.locks.manager = "free"
            /\ direct => nextId <= MaxNotes
            /\ jsonl' = Append(jsonl, entry)
            /\ nextId' = IF direct THEN nextId + 1 ELSE nextId
            /\ scratchpad' = IF At(t).call = "commit_scratch" THEN <<>>
                             ELSE scratchpad
            /\ op' = [kind |-> IF direct THEN "_append_long_term" ELSE At(t).call,
                      by |-> t, returned |-> IF direct THEN <<>> ELSE <<entry>>]
            /\ ret' = IF direct THEN None ELSE Outcome("none", FALSE, "entry")
            /\ threads' = [at |-> Goto(t, Idle), locks |-> [manager |-> "free"]]
            /\ MemoryFrame

\* update_long_term_entry(entry_id, updates) and delete_long_term_entry(
\* entry_id) up to their call of self.get_long_term(limit=None).
MemoryRewriteLongTerm(t) ==
    \E call \in {"update_long_term_entry", "delete_long_term_entry"},
       id \in EntryIdRange :
        /\ At(t).pc = "idle"
        /\ threads.locks.manager = "free"
        /\ threads' = Holding(t, "read", call, "none", <<[id |-> id]>>)
        /\ UNCHANGED <<scratchpad, jsonl, nextId, op, ret>>
        /\ MemoryFrame

\* get_long_term(limit=None): `with self.lock:` and the read of the file;
\* called on its own, or from update_long_term_entry / delete_long_term_entry,
\* which then rewrite the file and return.
MemoryGetLongTerm(t) ==
    \E content \in {"y"} :
        LET id == At(t).local[1].id
            found == \E i \in 1..Len(jsonl) : jsonl[i].id = id
            updated == [i \in 1..Len(jsonl) |->
                          IF jsonl[i].id = id THEN [jsonl[i] EXCEPT !.content = content]
                          ELSE jsonl[i]]
        IN  /\ At(t).pc \in {"idle", "read"}
            /\ threads.locks.manager = "free"
            /\ IF At(t).pc = "idle"
               THEN /\ op' = [kind |-> "get_long_term", by |-> t, returned |-> jsonl]
                    /\ ret' = Outcome("none", FALSE, "entries")
                    /\ UNCHANGED jsonl
               ELSE /\ op' = [kind |-> At(t).call, by |-> t]
                    /\ jsonl' = IF At(t).call = "update_long_term_entry" THEN updated
                                ELSE WithoutId(jsonl, id)
                    /\ ret' = Outcome("none", ~found,
                                       IF found THEN "found" ELSE "None")
            /\ threads' = Released(t)
            /\ UNCHANGED <<scratchpad, nextId>>
            /\ MemoryFrame

NextMemory ==
    \E t \in Callers :
        \/ MemoryAddScratch(t)
        \/ MemoryDeleteScratchEntry(t)
        \/ MemoryCommitScratch(t)
        \/ MemoryCommitSingleScratchEntry(t)
        \/ MemoryAppendLongTerm(t)
        \/ MemoryRewriteLongTerm(t)
        \/ MemoryGetLongTerm(t)

SpecMemory == InitMemory /\ [][NextMemory]_vars

\* A thread inside an operation goes on whenever the lock it waits for is
\* free.
FairMemory ==
    SpecMemory /\ \A t \in Callers :
                    WF_vars(MemoryAppendLongTerm(t)) /\ WF_vars(MemoryGetLongTerm(t))

\* C30: every MemoryManager operation that takes the manager's lock returns:
\* a thread that entered commit_scratch (non-empty scratchpad),
\* commit_single_scratch_entry (present id), update_long_term_entry or
\* delete_long_term_entry eventually leaves it.
C30_OperationsReturn ==
    \A t \in Callers : (At(t).pc # "idle") ~> (At(t).pc = "idle")

(***************************************************************************)
(* memory_layers.LongTermMemory (SpecLongTerm): ingest and clear of the    *)
(* wrapper, next to the engine's own ingest_documents.                     *)
(***************************************************************************)
\* A Python value passed as a positional argument, with its type.
PyList(v) == [type |-> "list", v |-> v]
PyBool(v) == [type |-> "bool", v |-> v]

\* Digestor.ingest_documents(*pargs): the parameters are (source, documents,
\* force=False) in this order.  A missing 'documents' raises TypeError at the
\* call; `for doc in documents` raises TypeError when documents is not
\* iterable (a bool).
IngestDocumentsPositional(d, pargs, faults, io, dbg) ==
    IF Len(pargs) < 2 THEN [d |-> d, exc |-> "TypeError"]
    ELSE IF pargs[2].type # "list" THEN [d |-> d, exc |-> "TypeError"]
    ELSE IngestDocuments(d, pargs[1].v, pargs[2].v,
                         IF Len(pargs) >= 3 THEN pargs[3].v ELSE FALSE,
                         faults, io, dbg)

\* LongTermMemory.ingest(documents, force):
\* self._digestor.ingest_documents(documents, force) inside try/except
\* Exception; raised is the exception that was logged.
LongTermIngest(d, documents, force, faults, io, dbg) ==
    LET r == IngestDocumentsPositional(d, <<PyList(documents), PyBool(force)>>,
                                       faults, io, dbg)
    IN  [d |-> r.d, exc |-> "none", raised |-> r.exc]

\* LongTermMemory.clear(): self._digestor.clear() inside try/except Exception
LongTermClear(d) == [d |-> Clear(d).d, exc |-> "none"]

LayersLongTermIngest ==
    \E docs \in DocLists, force \in BOOLEAN, io \in BOOLEAN, dbg \in BOOLEAN :
      \E faults \in FaultsOf(docs) :
        LET r == LongTermIngest(engines["e1"], docs, force, faults, io, dbg)
        IN  /\ Len(r.d.metadata) <= MaxStore
            /\ engines' = [engines EXCEPT !["e1"] = r.d]
            /\ op' = [kind |-> "longterm_ingest", docs |-> docs, force |-> force,
                      faultFree |-> ~io /\ faults[1] = {},
                      seen |-> engines["e1"].seen, raised |-> r.raised]
            /\ ret' = Outcome(r.exc, TRUE, "None")
            /\ OtherUnchanged

LayersLongTermClear ==
    LET r == LongTermClear(engines["e1"])
    IN  /\ engines' = [engines EXCEPT !["e1"] = r.d]
        /\ op' = [kind |-> "longterm_clear"]
        /\ ret' = Outcome(r.exc, TRUE, "None")
        /\ OtherUnchanged

NextLongTerm ==
    \/ LayersLongTermIngest
    \/ LayersLongTermClear
    \/ DigestorIngestDocuments

SpecLongTerm == InitDigestor /\ [][NextLongTerm]_vars

\* C31: after LongTermMemory.ingest(documents, force) returned (embedder and
\* store not failing), every document with non-empty content that was not
\* yet seen, or any such document when force is true, has its chunks in the
\* store.
C31_IngestReachesTheEngine ==
    (op.kind = "longterm_ingest" /\ op.faultFree)
    => \A i \in 1..Len(op.docs) :
         (op.docs[i].content # <<>>
          /\ (op.force \/ HashContent(op.docs[i].content) \notin op.seen))
         => \E j \in 1..Len(LT.metadata) :
              /\ LT.metadata[j].path = op.docs[i].path
              /\ LT.metadata[j].content_hash = HashContent(op.docs[i].content)

\* C32: in every interleaving of periodic and commit-triggered flushes, at
\* most one flush is between reading the buffer and clearing it, and no
\* Working entry is part of two ingested summaries.
C32_FlushesExcludeEachOther ==
    /\ Cardinality({t \in Callers : At(t).pc = "listed"}) <= 1
    /\ hist.twice = {}

\* C32 witness: one thread's flush has read the buffer and holds the lock
\* while another thread's commit_turn has added its entry and is about to
\* flush.
C32_Witness ==
    \E t \in Callers, u \in Callers :
        /\ t # u
        /\ At(t).pc = "listed"
        /\ threads.locks.shortterm = t
        /\ At(u).pc = "added"
        /\ Len(scratchpad) >= Threshold

(***************************************************************************)
(* SpecBuffer: the mutations of MemoryManager.scratchpad by two threads.   *)
(* add_scratch, delete_scratch_entry and commit_single_scratch_entry run   *)
(* under MemoryManager.lock; WorkingMemory.clear runs under the Working    *)
(* tier's own lock and empties the list object in place.  The two          *)
(* filtering operations build a new list from the scratchpad (the thread   *)
(* is then at "filtered", local = the new list) and assign it to           *)
(* self.scratchpad afterwards.  hist.cleared: the ids of the entries a     *)
(* clear() removed.                                                        *)
(***************************************************************************)
InitBuffer ==
    /\ engines = [e \in Engines |-> EmptyEngine("faiss")]
    /\ instances = [i \in Ids |-> NoEngine]
    /\ groups = [g \in GroupIds |-> NoGroup]
    /\ scratchpad = <<>>
    /\ nextId = 1
    /\ op = [kind |-> "init"]
    /\ ret = None
    /\ hist = [commits |-> 0, flushes |-> 0, pure |-> TRUE, cleared |-> {}]
    /\ NoRanking
    /\ tasks = NoTasks
    /\ threads = [at |-> [t \in Callers |-> Idle], locks |-> [manager |-> "free"]]
    /\ jsonl = <<>>

BufferFrame == UNCHANGED <<engines, instances, groups, ranked, tasks, jsonl>>

\* WorkingMemory.add(entry) -> MemoryManager.add_scratch(entry)
BufferAdd(t) ==
    \E content \in EntryContents :
        /\ At(t).pc = "idle"
        /\ threads.locks.manager = "free"
        /\ nextId <= MaxNotes
        /\ scratchpad' = AddScratch(scratchpad, [id |-> nextId, content |-> content])
        /\ nextId' = nextId + 1
        /\ op' = [kind |-> "add", by |-> t]
        /\ ret' = None
        /\ UNCHANGED <<threads, hist>>
        /\ BufferFrame

\* WorkingMemory.clear(): self._mgr.scratchpad.clear(), MemoryManager.lock is
\* not taken
BufferClear(t) ==
    /\ At(t).pc = "idle"
    /\ scratchpad' = WorkingClear(scratchpad)
    /\ hist' = [hist EXCEPT !.cleared = @ \cup EntryIds(scratchpad)]
    /\ op' = [kind |-> "clear", by |-> t]
    /\ ret' = None
    /\ UNCHANGED <<threads, nextId>>
    /\ BufferFrame

\* delete_scratch_entry(entry_id) / commit_single_scratch_entry(entry_id):
\* the lock is taken and the list without the entry is built.
BufferFilter(t) ==
    \E call \in {"delete_scratch_entry", "commit_single_scratch_entry"},
       id \in EntryIdRange :
        /\ At(t).pc = "idle"
        /\ threads.locks.manager = "free"
        /\ threads' = Holding(t, "filtered", call,
                              IF id \in EntryIds(scratchpad) THEN "found" ELSE "none",
                              WithoutId(scratchpad, id))
        /\ UNCHANGED <<scratchpad, nextId, hist, op, ret>>
        /\ BufferFrame

\* self.scratchpad = <the new list>, and the end of the operation:
\* delete_scratch_entry returns; commit_single_scratch_entry returns None when
\* the id was absent and otherwise calls self._append_long_term, where it
\* waits for the lock it holds.
BufferAssign(t) ==
    LET stuck == At(t).call = "commit_single_scratch_entry" /\ At(t).arg = "found"
    IN  /\ At(t).pc = "filtered"
        /\ scratchpad' = At(t).local
        /\ threads' = IF stuck
                      THEN [threads EXCEPT !.at = Goto(t, [At(t) EXCEPT !.pc = "append"])]
                      ELSE Released(t)
        /\ op' = [kind |-> At(t).call, by |-> t]
        /\ ret' = IF stuck THEN ret
                  ELSE Outcome("none", At(t).call # "delete_scratch_entry",
                               IF Len(scratchpad') < Len(scratchpad) THEN "True"
                               ELSE "False")
        /\ UNCHANGED <<nextId, hist>>
        /\ BufferFrame

NextBuffer ==
    \E t \in Callers :
        \/ BufferAdd(t)
        \/ BufferClear(t)
        \/ BufferFilter(t)
        \/ BufferAssign(t)

SpecBuffer == InitBuffer /\ [][NextBuffer]_vars

\* C33: the mutations of the Working buffer exclude each other: an entry
\* removed by WorkingMemory.clear() never reappears in the buffer, whatever
\* delete_scratch_entry, commit_single_scratch_entry or add_scratch calls
\* run at the same time.
C33_ClearedEntriesStayCleared ==
    EntryIds(scratchpad) \cap hist.cleared = {}

(***************************************************************************)
(* SpecNesting: the locks taken by MemoryLayers operations called from two *)
(* threads.  An operation is the list of its steps: `with <lock>:` entered *)
(* (acquire), left (release), and the statements between (effect).  A      *)
(* thread inside an operation has pc "in" and local = the steps it has     *)
(* still to do; arg holds the entry it adds or the entries it listed.      *)
(* threads.locks: the owner of ShortTermMemory._lock, WorkingMemory._lock  *)
(* and MemoryManager.lock.                                                 *)
(***************************************************************************)
Acq(lock) == [do |-> "acquire", lock |-> lock]
Rel(lock) == [do |-> "release", lock |-> lock]
Eff(name) == [do |-> "effect", lock |-> name]

\* (mutant of AddSteps: add_scratch's lock is taken before the Working lock)
AddStepsManagerFirst(entry) ==
    <<Acq("manager"), Acq("working"), Eff("append"), Rel("working"), Rel("manager")>>

\* WorkingMemory.add(entry): with self._lock: self._mgr.add_scratch(entry),
\* which appends under MemoryManager.lock
AddSteps(entry) ==
    <<Acq("working"), Acq("manager"), Eff("append"), Rel("manager"), Rel("working")>>

\* WorkingMemory.list(): with self._lock: return self._mgr.get_scratch()
ListSteps ==
    <<Acq("working"), Acq("manager"), Eff("list"), Rel("manager"), Rel("working")>>

\* WorkingMemory.clear(): with self._lock: self._mgr.scratchpad.clear()
ClearSteps == <<Acq("working"), Eff("clear"), Rel("working")>>

\* ShortTermMemory.flush() up to the threshold test
FlushSteps == <<Acq("shortterm")>> \o ListSteps \o <<Eff("threshold")>>

StepsOf(call, entry) ==
    IF call = "commit_turn" THEN AddSteps(entry) \o FlushSteps
    ELSE IF call = "flush" THEN FlushSteps
    ELSE IF call = "query_all" THEN ListSteps \o <<Eff("query")>>
    ELSE ClearSteps \o <<Eff("longterm_clear")>>

LockRank(lock) ==
    IF lock = "shortterm" THEN 1 ELSE IF lock = "working" THEN 2 ELSE 3

LockNames == {"shortterm", "working", "manager"}

InitNesting ==
    /\ engines = [e \in Engines |-> EmptyEngine("faiss")]
    /\ instances = [i \in Ids |-> NoEngine]
    /\ groups = [g \in GroupIds |-> NoGroup]
    /\ scratchpad = <<>>
    /\ nextId = 1
    /\ op = [kind |-> "init"]
    /\ ret = None
    /\ hist = [commits |-> 0, flushes |-> 0, pure |-> TRUE]
    /\ NoRanking
    /\ tasks = NoTasks
    /\ threads = [at |-> [t \in Callers |-> Idle],
                  locks |-> [l \in LockNames |-> "free"]]
    /\ jsonl = <<>>

NestingFrame == UNCHANGED <<instances, groups, hist, ranked, tasks, jsonl>>

\* The steps of thread t after the one it is doing; the operation is over
\* when none is left.
After(t, rest) ==
    IF rest = <<>> THEN Idle ELSE [At(t) EXCEPT !.local = rest]

\* A thread calls commit_turn(entry), flush() (the periodic task),
\* query_all(text) or clear_all().
NestingCall(t) ==
    \E call \in {"commit_turn", "flush", "query_all", "clear_all"} :
        LET entry == [id |-> nextId, content |-> "x"]
        IN  /\ At(t).pc = "idle"
            /\ call = "commit_turn" => nextId <= MaxNotes
            /\ nextId' = IF call = "commit_turn" THEN nextId + 1 ELSE nextId
            /\ threads' = [threads EXCEPT !.at =
                             Goto(t, [pc |-> "in", call |-> call, arg |-> <<entry>>,
                                      local |-> StepsOf(call, entry)])]
            /\ UNCHANGED <<engines, scratchpad, op, ret>>
            /\ NestingFrame

\* `with <lock>:` is entered: the thread waits until the lock is free.
NestingAcquire(t) ==
    /\ At(t).pc = "in"
    /\ Head(At(t).local).do = "acquire"
    /\ threads.locks[Head(At(t).local).lock] = "free"
    /\ threads' = [at |-> Goto(t, After(t, Tail(At(t).local))),
                   locks |-> [threads.locks EXCEPT ![Head(At(t).local).lock] = t]]
    /\ UNCHANGED <<engines, scratchpad, nextId, op, ret>>
    /\ NestingFrame

\* `with <lock>:` is left.
NestingRelease(t) ==
    /\ At(t).pc = "in"
    /\ Head(At(t).local).do = "release"
    /\ threads' = [at |-> Goto(t, After(t, Tail(At(t).local))),
                   locks |-> [threads.locks EXCEPT ![Head(At(t).local).lock] = "free"]]
    /\ op' = IF Tail(At(t).local) = <<>> THEN [kind |-> At(t).call, by |-> t] ELSE op
    /\ UNCHANGED <<engines, scratchpad, nextId, ret>>
    /\ NestingFrame

\* The statements between the lock operations.  append: the entry goes on
\* the scratchpad; list: the scratchpad is copied; threshold: flush returns
\* None below the threshold; summarize: the summarizer and ingest_documents
\* run, and self._working.clear() follows when neither raised; clear: the
\* scratchpad is emptied; query, longterm_clear: the Long-Term tier's query
\* and clear (no lock).
NestingEffect(t) ==
    /\ At(t).pc = "in"
    /\ Head(At(t).local).do = "effect"
    /\ \E sum \in SumOutcomes, io \in BOOLEAN, dbg \in BOOLEAN :
        \E faults \in SummaryFaults(sum) :
          LET e == Head(At(t).local).lock
              rest == Tail(At(t).local)
              f == Flush(At(t).arg, engines["e1"], sum, faults, io, dbg)
              quiet == ~sum.raises /\ sum.text = <<>> /\ ~io /\ ~dbg
          IN  /\ e # "summarize" => quiet
              /\ scratchpad' = IF e = "append" THEN AddScratch(scratchpad, At(t).arg[1])
                               ELSE IF e = "clear" THEN WorkingClear(scratchpad)
                               ELSE scratchpad
              /\ engines' = IF e = "summarize" THEN [engines EXCEPT !["e1"] = f.lt]
                            ELSE IF e = "longterm_clear"
                            THEN [engines EXCEPT !["e1"] = LongTermClear(@).d]
                            ELSE engines
              /\ threads' = [threads EXCEPT !.at = Goto(t,
                    IF e = "list"
                    THEN [At(t) EXCEPT !.arg = GetScratch(scratchpad), !.local = rest]
                    ELSE IF e = "threshold"
                    THEN [At(t) EXCEPT !.local =
                            IF Len(At(t).arg) < Threshold THEN <<Rel("shortterm")>>
                            ELSE <<Eff("summarize")>>]
                    ELSE IF e = "summarize"
                    THEN [At(t) EXCEPT !.local =
                            IF f.promoted THEN ClearSteps \o <<Rel("shortterm")>>
                            ELSE <<Rel("shortterm")>>]
                    ELSE After(t, rest))]
              /\ op' = IF rest = <<>> /\ e \in {"query", "longterm_clear"}
                       THEN [kind |-> At(t).call, by |-> t] ELSE op
              /\ UNCHANGED <<nextId, ret>>
              /\ NestingFrame

NextNesting ==
    \E t \in Callers :
        \/ NestingCall(t)
        \/ NestingAcquire(t)
        \/ NestingRelease(t)
        \/ NestingEffect(t)

SpecNesting == InitNesting /\ [][NextNesting]_vars

\* The lock thread t is about to take ("none": it is not at a `with`).
Wants(t) ==
    IF At(t).pc = "in" /\ Head(At(t).local).do = "acquire"
    THEN Head(At(t).local).lock ELSE "none"

HeldBy(t) == {l \in LockNames : threads.locks[l] = t}

\* C34: no interleaving of commit_turn, query_all, clear_all and periodic
\* flushes reaches a state in which two threads wait for each other's locks,
\* and a thread takes a lock only while it holds none that comes later in
\* the order ShortTerm lock, Working lock, MemoryManager lock.
C34_NoLockCycle ==
    /\ \A t \in Callers, u \in Callers :
         ~(/\ t # u
           /\ Wants(t) # "none"
           /\ Wants(u) # "none"
           /\ threads.locks[Wants(t)] = u
           /\ threads.locks[Wants(u)] = t)
    /\ \A t \in Callers :
         Wants(t) # "none"
         => \A l \in HeldBy(t) : LockRank(l) < LockRank(Wants(t))

\* C34 witness: a thread that holds a lock is about to take a further one,
\* which the other thread holds.
C34_Witness ==
    \E t \in Callers, u \in Callers :
        /\ t # u
        /\ Wants(t) # "none"
        /\ threads.locks[Wants(t)] = u
        /\ HeldBy(t) # {}
        /\ HeldBy(u) # {}

(***************************************************************************)
(* FaissVectorStore under the Digestor: ingest_chunks batches (with        *)
(* failing embeddings) and delete_by_metadata on the engine "e1".          *)
(***************************************************************************)
NextFaiss == DigestorIngestChunks \/ DigestorDeleteByMetadata

SpecFaiss == InitDigestor /\ [][NextFaiss]_vars

\* The metadata row is the one ChunkMetadatas builds for the chunk whose
\* embedding the vector is.
BelongsTo(meta, vector) ==
    \E c \in Contents \ {<<>>} :
        LET ch == chunk_text(c, ChunkSize, ChunkOverlap).val
        IN  /\ meta.content_hash = HashContent(c)
            /\ meta.chunk_index + 1 <= Len(ch)
            /\ vector = Embed(ch[meta.chunk_index + 1])

\* C36: for a FaissVectorStore, after any sequence of ingest_chunks and
\* delete_by_metadata calls the metadata list has exactly count() entries,
\* its i-th entry belongs to the i-th indexed vector, and a completed
\* delete_by_metadata leaves no record matching its filter.
C36_MetadataFollowsTheIndex ==
    LT.kind = "faiss"
    => /\ Len(LT.metadata) = StoreCount(LT)
       /\ \A i \in 1..Len(LT.metadata) : BelongsTo(LT.metadata[i], LT.vectors[i])
       /\ (op.kind = "delete_by_metadata" /\ ret.exc = "none")
          => \A i \in 1..Len(LT.metadata) : ~Matches(LT.metadata[i], op.filters)

(***************************************************************************)
(* The order of the Working tier: WorkingMemory.add and WorkingMemory.list *)
(* called by concurrent callers.  hist.before holds the pairs <<a, b>> of  *)
(* entry ids such that add(a) returned before add(b) was called;           *)
(* hist.effect is the order in which the appends took effect.              *)
(***************************************************************************)
InitOrder ==
    /\ engines = [e \in Engines |-> EmptyEngine("faiss")]
    /\ instances = [i \in Ids |-> NoEngine]
    /\ groups = [g \in GroupIds |-> NoGroup]
    /\ scratchpad = <<>>
    /\ nextId = 1
    /\ op = [kind |-> "init"]
    /\ ret = None
    /\ hist = [commits |-> 0, flushes |-> 0, pure |-> TRUE,
               returned |-> {}, before |-> {}, effect |-> <<>>]
    /\ NoRanking
    /\ tasks = NoTasks
    /\ threads = [at |-> [t \in Callers |-> Idle],
                  locks |-> [working |-> "free", manager |-> "free"]]
    /\ jsonl = <<>>

OrderFrame == UNCHANGED <<engines, instances, groups, ranked, tasks, jsonl>>

\* A caller builds a MemoryEntry and calls WorkingMemory.add(entry) or calls
\* WorkingMemory.list().
OrderCall(t) ==
    \E call \in {"add", "list"} :
        /\ At(t).pc = "idle"
        /\ call = "add" => nextId <= MaxNotes
        /\ threads' = [threads EXCEPT !.at = Goto(t,
               [pc |-> "called", call |-> call, arg |-> "none",
                local |-> IF call = "add"
                          THEN << [id |-> nextId, content |-> <<1>>] >>
                          ELSE <<>>])]
        /\ nextId' = IF call = "add" THEN nextId + 1 ELSE nextId
        /\ hist' = IF call = "add"
                   THEN [hist EXCEPT !.before = @ \cup {<<a, nextId>> : a \in hist.returned}]
                   ELSE hist
        /\ UNCHANGED <<scratchpad, op, ret>>
        /\ OrderFrame

\* with self._lock: of WorkingMemory.add and WorkingMemory.list
OrderEnter(t) ==
    /\ At(t).pc = "called"
    /\ RLockAcquirable(threads.locks.working, t)
    /\ threads' = [threads EXCEPT !.at = Goto(t, [At(t) EXCEPT !.pc = "entered"]),
                                  !.locks.working = t]
    /\ UNCHANGED <<scratchpad, nextId, hist, op, ret>>
    /\ OrderFrame

\* MemoryManager.add_scratch / get_scratch: the statement under
\* MemoryManager.lock, which is taken and released around it.
OrderManager(t) ==
    /\ At(t).pc = "entered"
    /\ threads.locks.manager = "free"
    /\ IF At(t).call = "add"
       THEN /\ scratchpad' = AddScratch(scratchpad, At(t).local[1])
            /\ hist' = [hist EXCEPT !.effect = Append(@, At(t).local[1].id)]
            /\ threads' = [threads EXCEPT !.at = Goto(t, [At(t) EXCEPT !.pc = "done"])]
       ELSE /\ threads' = [threads EXCEPT !.at = Goto(t,
                   [At(t) EXCEPT !.pc = "done", !.local = GetScratch(scratchpad)])]
            /\ UNCHANGED <<scratchpad, hist>>
    /\ UNCHANGED <<nextId, op, ret>>
    /\ OrderFrame

\* The with block of WorkingMemory is left and the call returns.
OrderReturn(t) ==
    /\ At(t).pc = "done"
    /\ threads' = [threads EXCEPT !.at = Goto(t, Idle), !.locks.working = "free"]
    /\ op' = [kind |-> At(t).call, by |-> t,
              returned |-> IF At(t).call = "list" THEN At(t).local ELSE <<>>]
    /\ ret' = Outcome("none", At(t).call = "add", At(t).call)
    /\ hist' = IF At(t).call = "add"
               THEN [hist EXCEPT !.returned = @ \cup {At(t).local[1].id}]
               ELSE hist
    /\ UNCHANGED <<scratchpad, nextId>>
    /\ OrderFrame

NextOrder ==
    \E t \in Callers :
        \/ OrderCall(t)
        \/ OrderEnter(t)
        \/ OrderManager(t)
        \/ OrderReturn(t)

SpecOrder == InitOrder /\ [][NextOrder]_vars

\* The position of the entry with this id in a list of entries (0: absent).
PositionOf(entries, id) ==
    IF id \in EntryIds(entries)
    THEN CHOOSE i \in 1..Len(entries) : entries[i].id = id
    ELSE 0

IdsInOrder(entries) == [i \in 1..Len(entries) |-> entries[i].id]

\* C37: the Working tier holds the entries in the order in which their adds
\* took effect, oldest first; an add that returned before another add was
\* called comes earlier; a list() result is the tier's content at the time of
\* the copy, so the adds after it only extend it and leave the order of its
\* entries as it is.
C37_ListKeepsAddOrder ==
    /\ IdsInOrder(scratchpad) = hist.effect
    /\ hist.returned \subseteq EntryIds(scratchpad)
    /\ \A p \in hist.before :
         p[2] \in EntryIds(scratchpad)
         => PositionOf(scratchpad, p[1]) < PositionOf(scratchpad, p[2])
    /\ op.kind = "list"
       => /\ Len(op.returned) <= Len(scratchpad)
          /\ op.returned = SubSeq(scratchpad, 1, Len(op.returned))
          /\ \A p \in hist.before :
               p[2] \in EntryIds(op.returned)
               => /\ p[1] \in EntryIds(op.returned)
                  /\ PositionOf(op.returned, p[1]) < PositionOf(op.returned, p[2])

\* A list() returned two entries, the first added by a call that had
\* returned before the call adding the second started, while a third entry
\* was added after the copy.
C37_Witness ==
    /\ op.kind = "list"
    /\ Len(op.returned) = 2
    /\ <<op.returned[1].id, op.returned[2].id>> \in hist.before
    /\ Len(scratchpad) = 3

(***************************************************************************)
(* Clearing through the registry (SpecManager).                            *)
(***************************************************************************)
\* The engine bound to the id has been through Digestor.clear: its set of
\* seen hashes is empty.
ClearAttempted(engs, e) == engs[e].seen = {}

\* C38: clear_group of an existing group and clear_all do not raise and put
\* every member engine through clear; clear_group leaves the instance and
\* group maps as they were, clear_all leaves no instance and no group.
C38_ClearReachesEveryMember ==
    [][/\ (op'.kind = "clear_group" /\ groups[op'.id].defined)
          => /\ ret'.exc = "none"
             /\ instances' = instances
             /\ groups' = groups
             /\ \A i \in 1..Len(groups[op'.id].members) :
                  instances[groups[op'.id].members[i]] # NoEngine
                  => ClearAttempted(engines', instances[groups[op'.id].members[i]])
       /\ op'.kind = "clear_all"
          => /\ ret'.exc = "none"
             /\ \A i \in Ids : instances'[i] = NoEngine
             /\ \A g \in GroupIds : groups'[g] = NoGroup
             /\ \A i \in Ids :
                  instances[i] # NoEngine => ClearAttempted(engines', instances[i])
      ]_vars

(***************************************************************************)
(* query_group racing delete_instance (SpecLocks).                         *)
(***************************************************************************)
\* C35: a query_group of an existing group that runs while, before or after
\* a delete_instance of one of its members does not raise, and its result is
\* sorted by descending score.
C35_QueryGroupSurvivesDelete ==
    (op.kind = "query_group" /\ groups[op.id].defined)
    => /\ ret.exc = "none"
       /\ \A i \in 1..Len(ret.val), j \in 1..Len(ret.val) :
            i < j => ret.val[i].score >= ret.val[j].score

============================================================================
